---------------------------- MODULE Spec2Model ----------------------------
(***************************************************************************)
(* QuerySprout Fan-Out: the content-extraction and prompt-construction     *)
(* pipeline of src/utils.py and the run handlers of src/app.py.            *)
(*                                                                         *)
(* Text is a sequence of one-character strings, so that str.startswith,    *)
(* the substring test `x in s`, str.strip and str.split are computed and   *)
(* not assumed.  A parsed page (the BeautifulSoup tree) is the sequence of *)
(* its elements in document order.  A prompt is the sequence of its lines. *)
(***************************************************************************)
EXTENDS Integers, Sequences, FiniteSets, TLC

VARIABLES
    html,          \* the parsed response body of the last fetch_content call
    url,           \* the url argument of the last fetch_content call
    content_data,  \* what the last fetch_content call returned
    extracted,     \* what a direct call of one extractor on the page returned
    settings,      \* the analysis_settings of the last prompt built
    inputs,        \* the other arguments of the last prompt built
    prompt,        \* the prompt returned by the last builder call
    artifacts,     \* the downloads the last direct show_export_options call offered
    api_keys,      \* st.session_state.api_keys
    last_analysis, \* st.session_state.last_analysis
    run,           \* the trace of the last run-button handler execution
    called,        \* the arguments of a direct call of an analyzer or of the provider
    outcome        \* what the direct call returned and did

extractVars == <<html, url, content_data, extracted>>
promptVars == <<settings, inputs, prompt, artifacts>>
appVars == <<api_keys, last_analysis, run>>
callVars == <<called, outcome>>
vars == <<html, url, content_data, extracted, settings, inputs, prompt, artifacts, api_keys, last_analysis, run, called, outcome>>

(***************************************************************************)
(* Bounds of the model.                                                    *)
(***************************************************************************)
MaxElems == 2
MaxVariants == 2
MaxRuns == 1

(***************************************************************************)
(* Python str operations on character sequences.                           *)
(***************************************************************************)
StartsWith(s, p) == Len(s) >= Len(p) /\ SubSeq(s, 1, Len(p)) = p

\* `p in s` of two str values
Contains(s, p) == \E i \in 0..(Len(s) - Len(p)) : SubSeq(s, i + 1, i + Len(p)) = p

IsSpace(c) == c \in {" ", "\n", "\t"}

RECURSIVE LStrip(_)
LStrip(s) == IF s # <<>> /\ IsSpace(Head(s)) THEN LStrip(Tail(s)) ELSE s

RECURSIVE RStrip(_)
RStrip(s) ==
    IF s # <<>> /\ IsSpace(s[Len(s)]) THEN RStrip(SubSeq(s, 1, Len(s) - 1)) ELSE s

\* str.strip()
Strip(s) == RStrip(LStrip(s))

\* the least index >= from of a character of s that is in set, or Len(s) + 1
RECURSIVE FindAny(_, _, _)
FindAny(s, set, from) ==
    IF from > Len(s) THEN Len(s) + 1
    ELSE IF s[from] \in set THEN from
    ELSE FindAny(s, set, from + 1)

SchemeChars ==
    {"a", "b", "h", "i", "l", "m", "o", "p", "t", "f", "s", "x", "+", "-", "."}

Letters == {"a", "b", "h", "i", "l", "m", "o", "p", "t", "f", "s", "x", "r", "w", "v"}

\* urlsplit: the rest of u after its scheme and ':', or u when it has no scheme
AfterScheme(u) ==
    LET i == FindAny(u, {":"}, 1)
    IN  IF /\ i <= Len(u)
           /\ i > 1
           /\ u[1] \in Letters
           /\ \A k \in 1..(i - 1) : u[k] \in SchemeChars
        THEN SubSeq(u, i + 1, Len(u))
        ELSE u

\* urlparse(u).netloc
Netloc(u) ==
    LET rest == AfterScheme(u)
    IN  IF StartsWith(rest, <<"/", "/">>)
        THEN SubSeq(rest, 3, FindAny(rest, {"/", "?", "#"}, 3) - 1)
        ELSE <<>>

(***************************************************************************)
(* The strings the pages and source URLs are built from.                   *)
(***************************************************************************)
Http == <<"h", "t", "t", "p">>
HttpSlashes == <<"h", "t", "t", "p", ":", "/", "/">>
HttpsSlashes == <<"h", "t", "t", "p", "s", ":", "/", "/">>
HostA == <<"a", ".", "i", "o">>
HostB == <<"b", ".", "i", "o">>
HostXA == <<"x", "a", ".", "i", "o">>
MailTo == <<"m", "a", "i", "l", "t", "o", ":">>

UrlTails ==
    { <<>>,
      <<"/", "p">>,
      <<"/", "?", "r", "=">> \o HostA,
      <<"#", "f">> }

AbsoluteHrefs ==
    { HttpsSlashes \o h \o t : h \in {HostA, HostB, HostXA}, t \in UrlTails }
        \cup { HttpSlashes \o h : h \in {HostA, HostB} }

OtherHrefs ==
    { <<"/", "p">>,
      <<"/", "/">> \o HostB \o <<"/", "p">>,
      <<"p", ".", "h", "t", "m", "l">>,
      <<"h", "t", "t", "p", ".", "h", "t", "m", "l">>,
      <<"#", "t", "o", "p">>,
      MailTo \o <<"x", "@">> \o HostA,
      MailTo \o <<"x", "@">> \o HostB,
      <<"f", "t", "p", ":", "/", "/">> \o HostB }

Hrefs == AbsoluteHrefs \cup OtherHrefs

SourceUrls == { HttpsSlashes \o HostA \o <<"/">>, HttpSlashes \o HostB \o <<"/", "p">> }

LinkTexts == { <<"w">> }

(***************************************************************************)
(* JSON-LD texts.  json.loads is modelled on a small grammar:              *)
(*   value ::= "1" | "[" "]" | "[" value "]" | "{" "}"                     *)
(* with optional surrounding blanks; the parsed value is represented by    *)
(* its tokens without the blanks.                                          *)
(***************************************************************************)
RECURSIVE ParseValue(_)
\* the parse of a value at the head of s: [ok, val, rest]
ParseValue(s) ==
    LET t == LStrip(s)
        bad == [ok |-> FALSE, val |-> <<>>, rest |-> <<>>]
    IN  IF t = <<>> THEN bad
        ELSE IF Head(t) = "1" THEN [ok |-> TRUE, val |-> <<"1">>, rest |-> Tail(t)]
        ELSE IF Head(t) = "{" THEN
            LET u == LStrip(Tail(t))
            IN  IF u # <<>> /\ Head(u) = "}"
                THEN [ok |-> TRUE, val |-> <<"{", "}">>, rest |-> Tail(u)]
                ELSE bad
        ELSE IF Head(t) = "[" THEN
            LET u == LStrip(Tail(t))
            IN  IF u # <<>> /\ Head(u) = "]"
                THEN [ok |-> TRUE, val |-> <<"[", "]">>, rest |-> Tail(u)]
                ELSE LET inner == ParseValue(u)
                         w == LStrip(inner.rest)
                     IN  IF inner.ok /\ w # <<>> /\ Head(w) = "]"
                         THEN [ok |-> TRUE, val |-> <<"[">> \o inner.val \o <<"]">>,
                               rest |-> Tail(w)]
                         ELSE bad
        ELSE bad

\* json.loads(text): [ok, val]; ok = FALSE stands for the exception it raises
JsonLoads(text) ==
    LET p == ParseValue(text)
    IN  IF p.ok /\ LStrip(p.rest) = <<>>
        THEN [ok |-> TRUE, val |-> p.val]
        ELSE [ok |-> FALSE, val |-> <<>>]

ScriptTexts ==
    { <<"{", "}">>,
      <<" ", "[", "1", " ", "]">>,
      <<"{">>,
      <<>> }

(***************************************************************************)
(* A parsed page: its elements in document order.  attrs is the element's  *)
(* attribute dict, text its own text node, parent the index of the         *)
(* enclosing element (0 at the top of the document).                       *)
(***************************************************************************)
Elem(tag, attrs, text) == [tag |-> tag, attrs |-> attrs, text |-> text, parent |-> 0]

Anchor(href, text) == Elem("a", "href" :> href, text)

Script(type, text) == Elem("script", "type" :> type, text)

LdJson == "application/ld+json"

NoAttrs == <<>>

Texts == { <<"w">>, <<" ", "w", " ", "\n", "v", " ">>, <<" ">> }

Elements ==
    { Anchor(h, t) : h \in Hrefs, t \in LinkTexts }
        \cup { Elem("a", NoAttrs, <<"w">>) }
        \cup { Script(LdJson, t) : t \in ScriptTexts }
        \cup { Script("text/javascript", <<"1">>), Elem("style", NoAttrs, <<"s">>) }
        \cup { Elem("title", NoAttrs, <<" ", "t", " ">>), Elem("h1", NoAttrs, <<"h", " ">>) }
        \cup { Elem("meta", ("name" :> "description") @@ ("content" :> <<" ", "m">>), <<>>),
               Elem("img", ("src" :> <<"i">>) @@ ("alt" :> <<"a">>), <<>>) }
        \cup { Elem("p", NoAttrs, t) : t \in Texts }

RECURSIVE SeqsUpTo(_, _)
SeqsUpTo(S, n) ==
    IF n = 0 THEN { <<>> }
    ELSE LET shorter == SeqsUpTo(S, n - 1)
         IN  shorter \cup { Append(q, e) : q \in { r \in shorter : Len(r) = n - 1 }, e \in S }

\* the elements of s as the children of one <body> element
InBody(s) ==
    <<Elem("body", NoAttrs, <<>>)>> \o [i \in 1..Len(s) |-> [s[i] EXCEPT !.parent = 1]]

\* a <body> holding a paragraph and a <main> element whose children are s
InMain(s) ==
    <<Elem("body", NoAttrs, <<>>),
      [Elem("p", NoAttrs, <<"n">>) EXCEPT !.parent = 1],
      [Elem("main", NoAttrs, <<>>) EXCEPT !.parent = 1]>>
        \o [i \in 1..Len(s) |-> [s[i] EXCEPT !.parent = 3]]

\* a page whose <h1> holds a link: <h1>h <a href="/p">w</a></h1>
HeadingWithLink ==
    << Elem("h1", NoAttrs, <<"h", " ">>),
       [Anchor(<<"/", "p">>, <<"w">>) EXCEPT !.parent = 1] >>

\* one element for each selector of _extract_text_content, each with a text
\* of its own: <main>, <article>, <div role="main">, <div class="content">,
\* <div id="content">
Containers ==
    { Elem("main", NoAttrs, <<"m">>),
      Elem("article", NoAttrs, <<"a">>),
      Elem("div", "role" :> "main", <<"r">>),
      Elem("div", "class" :> {"content"}, <<"c">>),
      Elem("div", "id" :> "content", <<"i">>) }

\* pages whose <body> holds a paragraph and then containers, side by side in
\* every order, and two pages with one container inside another
ContainerPages ==
    { InBody(<<Elem("p", NoAttrs, <<"n">>)>> \o s) : s \in SeqsUpTo(Containers, MaxElems) \ { <<>> } }
        \cup { << Elem("article", NoAttrs, <<"a">>),
                  [Elem("main", NoAttrs, <<"m">>) EXCEPT !.parent = 1] >>,
               << Elem("main", NoAttrs, <<"m">>),
                  [Elem("div", "id" :> "content", <<"i">>) EXCEPT !.parent = 1] >> }

\* pages without a <body>, with a <body>, with a <main> inside the <body>, one
\* with a nested heading, and the pages with content containers
Pages ==
    LET flat == SeqsUpTo(Elements, MaxElems)
    IN  flat \cup { InBody(s) : s \in flat } \cup { InMain(s) : s \in flat }
             \cup { HeadingWithLink } \cup ContainerPages

(***************************************************************************)
(* BeautifulSoup operations.                                               *)
(***************************************************************************)
\* dict.get(key, default) of an attribute dict
Attr(e, key, default) == IF key \in DOMAIN e.attrs THEN e.attrs[key] ELSE default

\* soup.find_all(tags): the elements with one of the tags, in document order
FindAll(soup, tags) == SelectSeq(soup, LAMBDA e : e.tag \in tags)

RECURSIVE IsWithin(_, _, _)
\* element j is element i or a descendant of it
IsWithin(soup, j, i) ==
    IF j = 0 THEN FALSE
    ELSE IF j = i THEN TRUE
    ELSE IsWithin(soup, soup[j].parent, i)

Removed == [tag |-> "", attrs |-> NoAttrs, text |-> <<>>, parent |-> 0]

\* for script in soup(["script", "style"]): script.decompose()
DecomposeScripts(soup) ==
    [j \in 1..Len(soup) |->
        IF \E i \in 1..Len(soup) :
               soup[i].tag \in {"script", "style"} /\ IsWithin(soup, j, i)
        THEN Removed
        ELSE soup[j]]

RECURSIVE Join(_, _)
\* sep.join(parts)
Join(parts, sep) ==
    IF parts = <<>> THEN <<>>
    ELSE IF Len(parts) = 1 THEN parts[1]
    ELSE LET half == Len(parts) \div 2
         IN  Join(SubSeq(parts, 1, half), sep) \o sep
                 \o Join(SubSeq(parts, half + 1, Len(parts)), sep)

\* tag.get_text() of element i: the text of the element and of its
\* descendants, in document order
GetText(soup, i) ==
    Join([j \in 1..Len(soup) |-> IF IsWithin(soup, j, i) THEN soup[j].text ELSE <<>>], <<>>)

\* tag.get_text(separator=' ', strip=True) of element i
GetTextStripped(soup, i) ==
    LET idx == SelectSeq([j \in 1..Len(soup) |-> j],
                         LAMBDA j : IsWithin(soup, j, i) /\ Strip(soup[j].text) # <<>>)
    IN  Join([k \in 1..Len(idx) |-> Strip(soup[idx[k]].text)], <<" ">>)

\* re.sub(r'\s+', ' ', text): each run of whitespace becomes one space, put
\* where the run starts
CollapseSpaces(s) ==
    LET kept == SelectSeq([i \in 1..Len(s) |-> i],
                          LAMBDA i : ~IsSpace(s[i]) \/ i = 1 \/ ~IsSpace(s[i - 1]))
    IN  [k \in 1..Len(kept) |-> IF IsSpace(s[kept[k]]) THEN " " ELSE s[kept[k]]]

\* str.split(): the whitespace-delimited tokens, each running from a
\* character that follows whitespace (or starts s) to the next whitespace
Split(s) ==
    LET starts == SelectSeq([i \in 1..Len(s) |-> i],
                            LAMBDA i : ~IsSpace(s[i]) /\ (i = 1 \/ IsSpace(s[i - 1])))
    IN  [k \in 1..Len(starts) |->
            SubSeq(s, starts[k], FindAny(s, {" ", "\n", "\t"}, starts[k]) - 1)]

(***************************************************************************)
(* ContentAnalyzer: the extractors.                                        *)
(***************************************************************************)
NoTitleFound == <<"N", "o", " ", "t", "i", "t", "l", "e", " ", "f", "o", "u", "n", "d">>

\* soup.find(tag): the index of the first element with the tag, 0 for None
Find(soup, tag) ==
    LET hits == SelectSeq([j \in 1..Len(soup) |-> j], LAMBDA j : soup[j].tag = tag)
    IN  IF hits # <<>> THEN hits[1] ELSE 0

\* mutant: the first <h1> preferred to the <title>
_extract_title_H1First(soup) ==
    LET title_tag == Find(soup, "title")
        h1_tag == Find(soup, "h1")
    IN  IF h1_tag # 0 THEN Strip(GetText(soup, h1_tag))
        ELSE IF title_tag # 0 THEN Strip(GetText(soup, title_tag))
        ELSE NoTitleFound

_extract_title(soup) ==
    LET title_tag == Find(soup, "title")
        h1_tag == Find(soup, "h1")
    IN  IF title_tag # 0 THEN Strip(GetText(soup, title_tag))
        ELSE IF h1_tag # 0 THEN Strip(GetText(soup, h1_tag))
        ELSE NoTitleFound

_extract_meta_description(soup) ==
    LET metas == SelectSeq(soup, LAMBDA e : e.tag = "meta" /\ Attr(e, "name", "") = "description")
    IN  IF metas # <<>> THEN Strip(Attr(metas[1], "content", <<>>)) ELSE <<>>

_extract_headings(soup) ==
    LET hs == SelectSeq([j \in 1..Len(soup) |-> j],
                        LAMBDA j : soup[j].tag \in {"h1", "h2", "h3", "h4", "h5", "h6"})
    IN  [i \in 1..Len(hs) |-> [level |-> soup[hs[i]].tag, text |-> Strip(GetText(soup, hs[i]))]]

\* soup.select_one over the selectors 'main', 'article', '[role="main"]',
\* '.content', '#content', numbered in the order the loop tries them
MatchesSelector(e, k) ==
    CASE k = 1 -> e.tag = "main"
      [] k = 2 -> e.tag = "article"
      [] k = 3 -> Attr(e, "role", "") = "main"
      [] k = 4 -> "content" \in Attr(e, "class", {})
      [] OTHER -> Attr(e, "id", "") = "content"

\* the index of the first element matching selector k, 0 for None
SelectOne(soup, k) ==
    LET hits == SelectSeq([j \in 1..Len(soup) |-> j], LAMBDA j : MatchesSelector(soup[j], k))
    IN  IF hits # <<>> THEN hits[1] ELSE 0

\* mutant: the first element, in document order, that matches any selector
MainText_DocumentOrder(soup) ==
    LET hits == SelectSeq([j \in 1..Len(soup) |-> j],
                          LAMBDA j : \E k \in 1..5 : MatchesSelector(soup[j], k))
        bodies == SelectSeq([j \in 1..Len(soup) |-> j], LAMBDA j : soup[j].tag = "body")
        main_content == IF hits # <<>> THEN hits[1]
                        ELSE IF bodies # <<>> THEN bodies[1]
                        ELSE 0
    IN  IF main_content # 0 THEN CollapseSpaces(GetTextStripped(soup, main_content)) ELSE <<>>

\* the text of the main content area of a soup whose scripts are decomposed
MainText(soup) ==
    LET found == SelectSeq(<<1, 2, 3, 4, 5>>, LAMBDA k : SelectOne(soup, k) # 0)
        bodies == SelectSeq([j \in 1..Len(soup) |-> j], LAMBDA j : soup[j].tag = "body")
        main_content == IF found # <<>> THEN SelectOne(soup, found[1])
                        ELSE IF bodies # <<>> THEN bodies[1]
                        ELSE 0
    IN  IF main_content # 0 THEN CollapseSpaces(GetTextStripped(soup, main_content)) ELSE <<>>

_extract_images(soup) ==
    LET imgs == FindAll(soup, {"img"})
    IN  [i \in 1..Len(imgs) |->
            [src |-> Attr(imgs[i], "src", <<>>), alt |-> Attr(imgs[i], "alt", <<>>),
             title |-> Attr(imgs[i], "title", <<>>)]]

\* soup.find_all('a', href=True)
AnchorsWithHref(soup) == SelectSeq(soup, LAMBDA e : e.tag = "a" /\ "href" \in DOMAIN e.attrs)

LinkRecords(anchors) ==
    [i \in 1..Len(anchors) |-> [url |-> anchors[i].attrs["href"], text |-> Strip(anchors[i].text)]]

\* the test of _extract_internal_links
IsInternalHref(href, domain) == Contains(href, domain) \/ StartsWith(href, <<"/">>)

\* mutant: the external test without its `domain not in href` conjunct
IsExternalHref_NoDomainTest(href, domain) == StartsWith(href, Http)

\* the test of _extract_external_links
IsExternalHref(href, domain) == StartsWith(href, Http) /\ ~Contains(href, domain)

_extract_internal_links(soup, base_url) ==
    LET domain == Netloc(base_url)
    IN  LinkRecords(SelectSeq(AnchorsWithHref(soup),
                              LAMBDA e : IsInternalHref(e.attrs["href"], domain)))

_extract_external_links(soup, base_url) ==
    LET domain == Netloc(base_url)
    IN  LinkRecords(SelectSeq(AnchorsWithHref(soup),
                              LAMBDA e : IsExternalHref(e.attrs["href"], domain)))

\* mutant: the loop left at the first block json.loads rejects
_extract_structured_data_StopsAtMalformed(soup) ==
    LET scripts == SelectSeq(soup, LAMBDA e : e.tag = "script" /\ Attr(e, "type", "") = LdJson)
        bad == SelectSeq([i \in 1..Len(scripts) |-> i], LAMBDA i : ~JsonLoads(scripts[i].text).ok)
        seen == IF bad = <<>> THEN scripts ELSE SubSeq(scripts, 1, bad[1] - 1)
    IN  [i \in 1..Len(seen) |-> JsonLoads(seen[i].text).val]

_extract_structured_data(soup) ==
    LET scripts == SelectSeq(soup, LAMBDA e : e.tag = "script" /\ Attr(e, "type", "") = LdJson)
        good == SelectSeq(scripts, LAMBDA e : JsonLoads(e.text).ok)
    IN  [i \in 1..Len(good) |-> JsonLoads(good[i].text).val]

\* mutant: the text taken without removing the scripts and styles
_extract_text_content_KeepsScripts(soup) == MainText(soup)

\* _extract_text_content: decomposes the scripts and styles of the soup it is
\* given, then returns the text of the main content area
_extract_text_content(soup) == MainText(DecomposeScripts(soup))

\* None, as fetch_content returns it
NoData == [ok |-> FALSE, pending |-> FALSE]

\* no fetch_content call was made yet
Unfetched == [ok |-> FALSE, pending |-> TRUE]

Clock == {1, 2}

\* mutant: the time of the fetch added to the word count
ExtractContent_CountDependsOnTime(soup, u, now) ==
    LET stripped == DecomposeScripts(soup)
        content == _extract_text_content(soup)
    IN  [ok |-> TRUE,
         url |-> u,
         title |-> _extract_title(soup),
         meta_description |-> _extract_meta_description(soup),
         headings |-> _extract_headings(soup),
         content |-> content,
         images |-> _extract_images(stripped),
         internal_links |-> _extract_internal_links(stripped, u),
         external_links |-> _extract_external_links(stripped, u),
         structured_data |-> _extract_structured_data(stripped),
         word_count |-> (IF content # <<>> THEN Len(Split(content)) ELSE 0) + now,
         fetch_time |-> now]

\* mutant: word_count counts the characters of the body text
ExtractContent_CountsCharacters(soup, u, now) ==
    LET stripped == DecomposeScripts(soup)
        content == _extract_text_content(soup)
    IN  [ok |-> TRUE,
         url |-> u,
         title |-> _extract_title(soup),
         meta_description |-> _extract_meta_description(soup),
         headings |-> _extract_headings(soup),
         content |-> content,
         images |-> _extract_images(stripped),
         internal_links |-> _extract_internal_links(stripped, u),
         external_links |-> _extract_external_links(stripped, u),
         structured_data |-> _extract_structured_data(stripped),
         word_count |-> Len(content),
         fetch_time |-> now]

\* the dict literal of fetch_content, evaluated entry by entry on one soup:
\* the entries after 'content' read the soup _extract_text_content has changed
ExtractContent(soup, u, now) ==
    LET stripped == DecomposeScripts(soup)
        content == _extract_text_content(soup)
    IN  [ok |-> TRUE,
         url |-> u,
         title |-> _extract_title(soup),
         meta_description |-> _extract_meta_description(soup),
         headings |-> _extract_headings(soup),
         content |-> content,
         images |-> _extract_images(stripped),
         internal_links |-> _extract_internal_links(stripped, u),
         external_links |-> _extract_external_links(stripped, u),
         structured_data |-> _extract_structured_data(stripped),
         word_count |-> IF content # <<>> THEN Len(Split(content)) ELSE 0,
         fetch_time |-> now]

\* requests.get + raise_for_status: a response, or a RequestException
FetchStatuses == {"ok", "request_error"}

\* ContentAnalyzer.fetch_content: None (NoData) on a RequestException
fetch_content(status, soup, u, now) ==
    IF status = "ok" THEN ExtractContent(soup, u, now) ELSE NoData

(***************************************************************************)
(* Prompts.  A prompt is the sequence of its lines; a line is the template *)
(* text it comes from and the value interpolated into it (a sequence of    *)
(* string fragments, empty for a fixed line).  The emoji of the headings   *)
(* of the optimization template are left out of the template texts.        *)
(***************************************************************************)
Line(t, v) == [t |-> t, v |-> v]

Fixed(t) == Line(t, <<>>)

\* dict.get(key, default) of a settings dict
Get(s, key, default) == IF key \in DOMAIN s THEN s[key] ELSE default

\* mutant: a flag counts as set as soon as any of the section flags is
Flag_AnySectionFlag(s, key) ==
    \E k \in {"include_entity_mapping", "include_cross_verification", "include_schema", "include_competitors"} : k \in DOMAIN s /\ s[k]

\* bool(settings.get(key)) of a flag
Flag(s, key) == key \in DOMAIN s /\ s[key]

Digit(d) == <<"0", "1", "2", "3", "4", "5", "6", "7", "8", "9">>[d + 1]

RECURSIVE IntToStr(_)
\* str(n) of a natural number
IntToStr(n) == IF n < 10 THEN <<Digit(n)>> ELSE IntToStr(n \div 10) \o <<Digit(n % 10)>>

\* the first n items of s: s[:n]
Take(s, n) == SubSeq(s, 1, IF Len(s) < n THEN Len(s) ELSE n)

RECURSIVE Flatten(_)
\* the concatenation of a sequence of sequences
Flatten(ss) == IF ss = <<>> THEN <<>> ELSE Head(ss) \o Flatten(Tail(ss))

\* ai_search_type.replace('_', ' ').title()
TitleOfSearchType(t) ==
    CASE t = "ai_overviews" -> <<"Ai Overviews">>
      [] t = "ai_mode" -> <<"Ai Mode">>
      [] t = "both" -> <<"Both">>
      [] OTHER -> <<t>>

\* Config.VARIANT_TYPES: the keys of the catalog, in its order
VARIANT_TYPES ==
    << "equivalent", "follow_up", "generalization", "canonicalization",
       "entailment", "specification", "clarification" >>

\* the if/elif chain of the first loop of _build_new_content_prompt
VariantDescription(vtype) ==
    CASE vtype = "equivalent" ->
             <<Fixed("- Equivalent: Alternative ways to ask the same question")>>
      [] vtype = "follow_up" -> <<Fixed("- Follow-up: Logical next questions")>>
      [] vtype = "generalization" ->
             <<Fixed("- Generalization: Broader versions of queries")>>
      [] vtype = "canonicalization" ->
             <<Fixed("- Canonicalization: Standardized search terms")>>
      [] vtype = "entailment" -> <<Fixed("- Entailment: Logically implied queries")>>
      [] vtype = "specification" -> <<Fixed("- Specification: More detailed versions")>>
      [] vtype = "clarification" ->
             <<Fixed("- Clarification: Intent clarification queries")>>
      [] OTHER -> <<>>

\* the if/elif chain of the second loop of _build_new_content_prompt
VariantInstruction(vtype) ==
    CASE vtype = "equivalent" ->
             <<Fixed("- **Equivalent Queries**: List 3-5 alternative phrasings users might use")>>
      [] vtype = "follow_up" ->
             <<Fixed("- **Follow-up Queries**: List 3-5 logical next questions users would ask")>>
      [] vtype = "generalization" ->
             <<Fixed("- **Generalization Queries**: List 2-3 broader topic queries")>>
      [] vtype = "specification" ->
             <<Fixed("- **Specification Queries**: List 3-5 more specific/detailed versions")>>
      [] vtype = "entailment" ->
             <<Fixed("- **Entailment Queries**: List 2-3 logically implied questions")>>
      [] vtype = "canonicalization" ->
             <<Fixed("- **Canonicalization Queries**: List 2-3 standardized versions")>>
      [] vtype = "clarification" ->
             <<Fixed("- **Clarification Queries**: List 2-3 questions to clarify intent")>>
      [] OTHER -> <<>>

\* mutant: the first loop run over its default list whatever the settings hold
DescriptionTypes_DefaultOnly(s) == <<"equivalent", "follow_up">>

\* the variant types the first loop iterates over
DescriptionTypes(s) == Get(s, "variant_types", <<"equivalent", "follow_up">>)

\* the variant types the second loop iterates over
InstructionTypes(s) == Get(s, "variant_types", <<>>)

\* mutant: the description lines in the catalog's order, not the loop's
VariantDescriptions_CatalogOrder(s) ==
    LET vts == DescriptionTypes(s)
    IN  Flatten([i \in 1..Len(VARIANT_TYPES) |->
                    IF \E j \in 1..Len(vts) : vts[j] = VARIANT_TYPES[i]
                    THEN VariantDescription(VARIANT_TYPES[i])
                    ELSE <<>>])

\* variant_descriptions: one line per requested type, in the order of the loop
VariantDescriptions(s) ==
    LET vts == DescriptionTypes(s)
    IN  Flatten([i \in 1..Len(vts) |-> VariantDescription(vts[i])])

VariantInstructions(s) ==
    LET vts == InstructionTypes(s)
    IN  Flatten([i \in 1..Len(vts) |-> VariantInstruction(vts[i])])

Section4 ==
    << Fixed("## 4. AI OVERVIEWS OPTIMIZATION"),
       Fixed("For quick answer optimization:"),
       Fixed("- **Direct Answer Format**: Exact 40-60 word answers for each query"),
       Fixed("- **Snippet Structure**: Paragraph vs. list vs. table recommendations"),
       Fixed("- **First 100 Words**: Optimization strategy for immediate visibility"),
       Fixed("- **FAQ Structure**: Questions and concise answers") >>

Section5 ==
    << Fixed("## 5. AI MODE OPTIMIZATION"),
       Fixed("For complex query fan-out:"),
       Fixed("- **Passage-Level Coverage**: Key passages to include"),
       Fixed("- **Semantic Completeness**: Topics that must be covered"),
       Fixed("- **Entity Relationships**: Core entities and their connections"),
       Fixed("- **Progressive Disclosure**: Information architecture strategy") >>

Section6 ==
    << Fixed("## 6. ENTITY MAPPING"),
       Fixed("- **Core Entities**: Primary entities to define"),
       Fixed("- **Entity Relationships**: How entities connect"),
       Fixed("- **Knowledge Graph**: Visual representation of connections"),
       Fixed("- **Semantic Markup**: Schema.org recommendations") >>

\* mutant: section 7 numbered as if section 6 had been dropped before it
Section7_Renumbered ==
    << Fixed("## 6. CROSS-VERIFICATION STRATEGY"),
       Fixed("- **Fact Verification**: Key facts to verify and cite"),
       Fixed("- **Contradictory Information**: How to handle conflicting data"),
       Fixed("- **Authority Signals**: Sources and citations to include"),
       Fixed("- **Trust Indicators**: Elements that build credibility") >>

Section7 ==
    << Fixed("## 7. CROSS-VERIFICATION STRATEGY"),
       Fixed("- **Fact Verification**: Key facts to verify and cite"),
       Fixed("- **Contradictory Information**: How to handle conflicting data"),
       Fixed("- **Authority Signals**: Sources and citations to include"),
       Fixed("- **Trust Indicators**: Elements that build credibility") >>

Section8 ==
    << Fixed("## 8. SCHEMA MARKUP STRATEGY"),
       Fixed("- **Essential Schemas**: Required schema types"),
       Fixed("- **FAQ Schema**: Questions and answers"),
       Fixed("- **HowTo Schema**: Step-by-step processes"),
       Fixed("- **Article/BlogPosting**: Metadata requirements") >>

Section9 ==
    << Fixed("## 9. COMPETITIVE DIFFERENTIATION"),
       Fixed("- **Content Gaps**: What competitors likely miss"),
       Fixed("- **Unique Angles**: Fresh perspectives to explore"),
       Fixed("- **10x Content**: How to create superior content"),
       Fixed("- **Differentiation Strategy**: Unique value propositions") >>

\* settings.get('ai_search_type') in ['ai_overviews', 'both']; None, which
\* get returns for a missing key, is in neither list
AiOverviewsTargeted(s) == Get(s, "ai_search_type", "") \in {"ai_overviews", "both"}

\* mutant: the test of section 5 with the default the context line uses
AiModeTargeted_ContextDefault(s) == Get(s, "ai_search_type", "ai_mode") \in {"ai_mode", "both"}

\* settings.get('ai_search_type') in ['ai_mode', 'both']
AiModeTargeted(s) == Get(s, "ai_search_type", "") \in {"ai_mode", "both"}

\* QueryAnalyzer._build_new_content_prompt(queries_list, settings)
_build_new_content_prompt(queries_list, s) ==
    << Fixed("You are an expert in Google's Query Fan-Out system and AI-powered search optimization."),
       Fixed("CONTEXT:"),
       Line("- Target Audience: ", Get(s, "target_audience", <<"General audience">>)),
       Line("- Content Type: ", Get(s, "content_type", <<"Blog Post">>)),
       Line("- Optimization Target: ", TitleOfSearchType(Get(s, "ai_search_type", "ai_mode"))),
       Line("- Analysis Depth: ", Get(s, "depth", <<"Standard">>)),
       Fixed("QUERY VARIANT TYPES TO GENERATE:") >>
    \o VariantDescriptions(s)
    \o <<Fixed("TARGET QUERIES FOR NEW CONTENT:")>>
    \o [i \in 1..Len(queries_list) |->
           Line("{i+1}. {q}", IntToStr(i) \o <<". ">> \o queries_list[i])]
    \o << Fixed("Please provide a comprehensive Query Fan-Out analysis following Google's methodology:"),
          Fixed("## 1. QUERY FAN-OUT GENERATION"),
          Fixed("For each target query, generate ALL requested variant types:") >>
    \o VariantInstructions(s)
    \o << Fixed("## 2. MULTI-PATH EXPLORATION"),
          Fixed("Identify different interpretation paths for ambiguous queries:"),
          Fixed("- Technical vs. General interpretations"),
          Fixed("- Commercial vs. Informational intents"),
          Fixed("- Different user contexts (beginner vs. expert)"),
          Fixed("## 3. CONTENT ARCHITECTURE"),
          Fixed("Based on the fan-out analysis, provide:"),
          Fixed("- **Primary Content Hub**: Main pillar page structure"),
          Fixed("- **Supporting Content**: List of supporting articles needed"),
          Fixed("- **Content Depth**: Word count recommendations for each piece"),
          Fixed("- **Internal Linking Strategy**: How to connect the content") >>
    \o (IF AiOverviewsTargeted(s) THEN Section4 ELSE <<>>)
    \o (IF AiModeTargeted(s) THEN Section5 ELSE <<>>)
    \o (IF Flag(s, "include_entity_mapping") THEN Section6 ELSE <<>>)
    \o (IF Flag(s, "include_cross_verification") THEN Section7 ELSE <<>>)
    \o (IF Flag(s, "include_schema") THEN Section8 ELSE <<>>)
    \o (IF Flag(s, "include_competitors") THEN Section9 ELSE <<>>)
    \o << Fixed("## 10. IMPLEMENTATION ROADMAP"),
          Fixed("Provide a prioritized action plan:"),
          Fixed("1. **Quick Wins**: Content that can rank quickly"),
          Fixed("2. **Foundation Content**: Essential pieces to create first"),
          Fixed("3. **Supporting Content**: Secondary pieces to develop"),
          Fixed("4. **Enhancement Strategy**: Ongoing optimization approach"),
          Fixed("## 11. SUCCESS METRICS"),
          Fixed("- **Ranking Targets**: Expected positions for each query"),
          Fixed("- **Visibility Indicators**: AI mode appearance signals"),
          Fixed("- **Engagement Metrics**: User behavior targets"),
          Fixed("- **Conversion Goals**: Business outcomes to track"),
          Fixed("Format your response with clear sections, bullet points, and actionable recommendations."),
          Fixed("Focus on practical implementation using Google's Query Fan-Out methodology.") >>

\* h['level'].upper()
UpperLevel(level) ==
    CASE level = "h1" -> "H1" [] level = "h2" -> "H2" [] level = "h3" -> "H3"
      [] level = "h4" -> "H4" [] level = "h5" -> "H5" [] level = "h6" -> "H6"
      [] OTHER -> level

HeadingLimit == 20

ExcerptLimit == 1000

\* mutant: one line for every heading of the page
HeadingStructure_Uncapped(doc) ==
    [i \in 1..Len(doc.headings) |->
        Line("{level}: {text}", <<UpperLevel(doc.headings[i].level), ": ">> \o doc.headings[i].text)]

\* heading_structure: one line per heading, of the first 20 headings
HeadingStructure(doc) ==
    LET hs == Take(doc.headings, HeadingLimit)
    IN  [i \in 1..Len(hs) |->
            Line("{level}: {text}", <<UpperLevel(hs[i].level), ": ">> \o hs[i].text)]

\* mutant: the excerpt cut by characters, not by words
ContentExcerpt_ByCharacters(doc) == Take(doc.content, ExcerptLimit)

\* content_excerpt: ' '.join(content.split()[:1000])
ContentExcerpt(doc) == Join(Take(Split(doc.content), ExcerptLimit), <<" ">>)

\* ', '.join(additional_keywords) if additional_keywords else 'None'
KeywordsText(additional_keywords) ==
    IF additional_keywords # <<>> THEN Join(additional_keywords, <<", ">>) ELSE <<"None">>

\* the heading of section 11, part of the template that is always emitted
Section11Heading == <<Fixed("## 11. COMPETITOR GAP ANALYSIS")>>

\* the lines added under `if competitor_data:`
Section11Body ==
    << Fixed("Based on competitor analysis, here's what they have that you're missing:"),
       Fixed("### Content They Cover That You Don't:"),
       Fixed("### ADD THIS SECTION to compete:"),
       Fixed("[Write ready-to-use content section that fills the gap]") >>

\* ContentAnalyzer._build_optimization_prompt
_build_optimization_prompt(doc, primary_keyword, additional_keywords, competitor_data, s) ==
    << Fixed("You are an expert content optimizer specializing in Google's Query Fan-Out system and AI Overviews optimization."),
       Fixed("CRITICAL INSTRUCTION: Provide SPECIFIC, ACTIONABLE REWRITES that can be directly copy-pasted into the content. Not generic advice."),
       Fixed("TARGET OPTIMIZATION:"),
       Line("- Primary Keyword: ", primary_keyword),
       Line("- Additional Keywords: ", KeywordsText(additional_keywords)),
       Line("- Optimization Type: ", TitleOfSearchType(Get(s, "ai_search_type", "ai_mode"))),
       Fixed("CURRENT CONTENT ANALYSIS:"),
       Line("URL: ", doc.url),
       Line("Title: ", doc.title),
       Line("Meta Description: ", doc.meta_description),
       Line("Word Count: ", IntToStr(doc.word_count)),
       Line("Headings Count: ", IntToStr(Len(doc.headings))),
       Line("Images: ", IntToStr(Len(doc.images))),
       Line("Internal Links: ", IntToStr(Len(doc.internal_links))),
       Line("External Links: ", IntToStr(Len(doc.external_links))),
       Fixed("HEADING STRUCTURE:") >>
    \o HeadingStructure(doc)
    \o << Fixed("CONTENT SAMPLE (First 1000 words):"),
          Line("{content_excerpt}", ContentExcerpt(doc)),
          Fixed("Provide the following ACTIONABLE optimization report:"),
          Fixed("# QUERY FAN-OUT OPTIMIZATION REPORT"),
          Fixed("## 1. QUICK WIN: ANSWER BOX OPTIMIZATION"),
          Fixed("### Current Opening (if exists)"),
          Fixed("### OPTIMIZED REWRITE FOR AI OVERVIEW"),
          Fixed("### Implementation Notes"),
          Fixed("## 2. QUERY VARIANT COVERAGE ANALYSIS"),
          Line("Based on {primary_keyword}, these query variants MUST be addressed:",
               primary_keyword),
          Fixed("### Missing Query Variants Your Content Doesn't Answer:"),
          Fixed("### NEW SECTIONS TO ADD (Copy-Paste Ready)"),
          Fixed("## 3. CRITICAL CONTENT REWRITES"),
          Fixed("### REWRITE 1: [Specific Section Name]"),
          Fixed("### REWRITE 2: [Another Section Name]"),
          Fixed("## 4. STRUCTURAL IMPROVEMENTS"),
          Fixed("### Current Structure Problem"),
          Fixed("### EXACT RESTRUCTURING PLAN"),
          Fixed("## 5. METADATA OPTIMIZATION"),
          Fixed("### Current Title Tag"),
          Line("{title}", doc.title),
          Fixed("### OPTIMIZED Title Tag"),
          Fixed("### Current Meta Description"),
          Line("{meta_description}", doc.meta_description),
          Fixed("### OPTIMIZED Meta Description"),
          Fixed("## 6. FAQ SECTION TO ADD (Copy-Paste Ready)"),
          Fixed("## 7. INTERNAL LINKING OPTIMIZATION"),
          Fixed("### Links to ADD:"),
          Fixed("### Links to REMOVE or UPDATE:"),
          Fixed("## 8. SCHEMA MARKUP TO IMPLEMENT"),
          Fixed("### FAQ Schema (Copy-Paste Ready)"),
          Fixed("## 9. IMPLEMENTATION PRIORITY"),
          Fixed("### DO TODAY (15 minutes):"),
          Fixed("### DO THIS WEEK (1-2 hours):"),
          Fixed("### DO THIS MONTH:"),
          Fixed("## 10. EXPECTED RESULTS") >>
    \o Section11Heading
    \o (IF competitor_data # <<>> THEN Section11Body ELSE <<>>)
    \o << Fixed("---"),
          Fixed("Remember: Every suggestion above is SPECIFIC and ACTIONABLE. The user should be able to copy-paste rewrites directly into their CMS without any additional editing needed."),
          Fixed("Focus on maintaining the original writing style and brand voice while optimizing for Query Fan-Out and AI Overviews.") >>

(***************************************************************************)
(* AIProvider, and the two analysis entry points.  The answer of the       *)
(* provider is an input of the run: a text (possibly empty), an exception  *)
(* of the SDK call, or the SDK not being installed.  Every operator        *)
(* returns what the function returns (ret), the SDK calls it made (calls), *)
(* the st.error messages it showed (ui), the pages it fetched (fetches)    *)
(* and the prompt it built.                                                *)
(***************************************************************************)
None == [kind |-> "none", text |-> ""]

Text(t) == [kind |-> "text", text |-> t]

\* the exception e, leaving the function that was called
Raised(msg) == [kind |-> "raised", text |-> msg]

\* `if value:` of a returned value
Truthy(v) == v.kind = "text" /\ v.text # ""

ProviderAnswers ==
    { [kind |-> "text", text |-> "the analysis"],
      [kind |-> "text", text |-> ""],
      [kind |-> "error", text |-> "quota exceeded"],
      [kind |-> "error", text |-> "invalid api_key"],
      [kind |-> "not_installed", text |-> ""] }

\* "api_key" in str(e).lower()
MentionsApiKey(msg) == msg = "invalid api_key"

\* a message shown with st.error: its fixed text and the value put into it
Message(t, v) == [t |-> t, v |-> v]

\* the SDK request of one provider backend
SdkCall(provider, api_key, model, p) ==
    [provider |-> provider, api_key |-> api_key, model |-> model, prompt |-> p]

\* mutant: the except clause lets the exception leave the backend
OnProviderError_Reraise(label, checkKey, answer) ==
    [ret |-> Raised(answer.text), ui |-> <<>>]

\* what the except clause of a backend returns for the exception e
OnProviderError(label, checkKey, answer) ==
    [ret |-> None,
     ui |-> <<Message(label, <<answer.text>>)>>
              \o (IF checkKey /\ MentionsApiKey(answer.text)
                  THEN <<Message("Please check your API key", <<label>>)>>
                  ELSE <<>>)]

\* mutant: the request is sent a second time after an exception
Backend_RetryOnError(provider, label, checkKey, p, api_key, model, answer) ==
    LET call == SdkCall(provider, api_key, model, p)
    IN  IF answer.kind = "text"
        THEN [ret |-> Text(answer.text), calls |-> <<call>>, ui |-> <<>>]
        ELSE [calls |-> <<call, call>>] @@ OnProviderError(label, checkKey, answer)

\* the body shared by _generate_gemini, _generate_openai, _generate_anthropic:
\* one SDK request inside try/except
Backend(provider, label, checkKey, p, api_key, model, answer) ==
    IF answer.kind = "not_installed"
    THEN [ret |-> None, calls |-> <<>>, ui |-> <<Message("library not installed", <<provider>>)>>]
    ELSE LET call == SdkCall(provider, api_key, model, p)
         IN  IF answer.kind = "text"
             THEN [ret |-> Text(answer.text), calls |-> <<call>>, ui |-> <<>>]
             ELSE [calls |-> <<call>>] @@ OnProviderError(label, checkKey, answer)

_generate_gemini(p, api_key, model, answer) ==
    Backend("gemini", "Gemini API error: ", FALSE, p, api_key, model, answer)

_generate_openai(p, api_key, model, answer) ==
    Backend("openai", "OpenAI API error: ", TRUE, p, api_key, model, answer)

_generate_anthropic(p, api_key, model, answer) ==
    Backend("anthropic", "Anthropic API error: ", TRUE, p, api_key, model, answer)

\* mutant: a provider name that is not known is served by Gemini
generate_content_UnknownToGemini(p, api_key, s, answer) ==
    LET provider == Get(s, "ai_provider", "gemini")
        model == Get(s, "model", "gemini-1.5-flash")
    IN  CASE provider = "openai" ->
                 _generate_openai(p, api_key, model, answer) @@ [backends |-> <<"openai">>]
          [] provider = "anthropic" ->
                 _generate_anthropic(p, api_key, model, answer) @@ [backends |-> <<"anthropic">>]
          [] OTHER ->
                 _generate_gemini(p, api_key, model, answer) @@ [backends |-> <<"gemini">>]

\* AIProvider.generate_content(prompt, api_key, settings); backends are the
\* _generate_* functions it called
generate_content(p, api_key, s, answer) ==
    LET provider == Get(s, "ai_provider", "gemini")
        model == Get(s, "model", "gemini-1.5-flash")
    IN  CASE provider = "gemini" ->
                 _generate_gemini(p, api_key, model, answer) @@ [backends |-> <<"gemini">>]
          [] provider = "openai" ->
                 _generate_openai(p, api_key, model, answer) @@ [backends |-> <<"openai">>]
          [] provider = "anthropic" ->
                 _generate_anthropic(p, api_key, model, answer) @@ [backends |-> <<"anthropic">>]
          [] OTHER -> [ret |-> None, calls |-> <<>>, backends |-> <<>>,
                       ui |-> <<Message("Unknown AI provider: ", <<provider>>)>>]

NoApiKey ==
    [ret |-> None, calls |-> <<>>, backends |-> <<>>, ui |-> <<Message("Please provide an API key", <<>>)>>,
     fetches |-> <<>>, competitor_data |-> <<>>, prompt |-> <<>>]

\* mutant: the analysis notes in the settings that the prompt was built
analyze_query_fanout_new_content_MarksSettings(queries, api_key, s, answer) ==
    IF api_key = "" THEN NoApiKey @@ [settings |-> s]
    ELSE LET p == _build_new_content_prompt(queries, s)
         IN  generate_content(p, api_key, s, answer)
                 @@ [fetches |-> <<>>, competitor_data |-> <<>>, prompt |-> p,
                     settings |-> [key \in DOMAIN s \cup {"prompt_built"} |->
                                      IF key = "prompt_built" THEN TRUE ELSE s[key]]]

\* mutant: the prompt is built and sent whatever the key
analyze_query_fanout_new_content_IgnoresKey(queries, api_key, s, answer) ==
    LET p == _build_new_content_prompt(queries, s)
    IN  generate_content(p, api_key, s, answer)
            @@ [fetches |-> <<>>, competitor_data |-> <<>>, prompt |-> p, settings |-> s]

\* QueryAnalyzer.analyze_query_fanout_new_content(queries_df, api_key, analysis_settings);
\* settings is the analysis_settings dict as the call leaves it: neither the
\* call nor the builder and the provider it calls assign to it
analyze_query_fanout_new_content(queries, api_key, s, answer) ==
    IF api_key = "" THEN NoApiKey @@ [settings |-> s]
    ELSE LET p == _build_new_content_prompt(queries, s)
         IN  generate_content(p, api_key, s, answer)
                 @@ [fetches |-> <<>>, competitor_data |-> <<>>, prompt |-> p, settings |-> s]

CompetitorLimit == 3

\* the fetch_content call made for the page at u in a web where the pages of
\* `down` cannot be fetched
FetchAt(u, pageOf, down, now) ==
    fetch_content(IF u \in down THEN "request_error" ELSE "ok", pageOf[u], u, now)

\* mutant: the analysis given up at the first competitor page that cannot be
\* fetched
analyze_existing_content_AbortsOnFailedFetch(doc, primary_keyword, additional_keywords, competitor_urls, api_key, s, pageOf, down, now, answer) ==
    IF api_key = "" THEN NoApiKey @@ [settings |-> s]
    ELSE LET tried == IF competitor_urls # <<>> /\ Flag(s, "include_competitors")
                      THEN Take(competitor_urls, CompetitorLimit)
                      ELSE <<>>
             failed == SelectSeq([i \in 1..Len(tried) |-> i],
                                 LAMBDA i : ~FetchAt(tried[i], pageOf, down, now).ok)
             reached == IF failed = <<>> THEN tried ELSE SubSeq(tried, 1, failed[1])
             competitor_data == [i \in 1..(IF failed = <<>> THEN Len(tried) ELSE failed[1] - 1) |->
                                    FetchAt(tried[i], pageOf, down, now)]
             p == _build_optimization_prompt(doc, primary_keyword, additional_keywords,
                                             competitor_data, s)
             g == generate_content(p, api_key, s, answer)
         IN  IF failed # <<>>
             THEN [ret |-> None, calls |-> <<>>, backends |-> <<>>,
                   ui |-> <<Message("Error fetching content: ", tried[failed[1]])>>,
                   fetches |-> reached, competitor_data |-> competitor_data, prompt |-> <<>>,
                   settings |-> s]
             ELSE [ret |-> g.ret, calls |-> g.calls, backends |-> g.backends, ui |-> g.ui,
                   fetches |-> tried, competitor_data |-> competitor_data, prompt |-> p,
                   settings |-> s]

\* ContentAnalyzer.analyze_existing_content
analyze_existing_content(doc, primary_keyword, additional_keywords, competitor_urls, api_key, s, pageOf, down, now, answer) ==
    IF api_key = "" THEN NoApiKey @@ [settings |-> s]
    ELSE LET tried == IF competitor_urls # <<>> /\ Flag(s, "include_competitors")
                      THEN Take(competitor_urls, CompetitorLimit)
                      ELSE <<>>
             got == SelectSeq(tried, LAMBDA u : FetchAt(u, pageOf, down, now).ok)
             competitor_data == [i \in 1..Len(got) |-> FetchAt(got[i], pageOf, down, now)]
             failed == SelectSeq(tried, LAMBDA u : ~FetchAt(u, pageOf, down, now).ok)
             p == _build_optimization_prompt(doc, primary_keyword, additional_keywords,
                                             competitor_data, s)
             g == generate_content(p, api_key, s, answer)
         IN  [ret |-> g.ret,
              calls |-> g.calls,
              backends |-> g.backends,
              ui |-> [i \in 1..Len(failed) |-> Message("Error fetching content: ", failed[i])]
                       \o g.ui,
              fetches |-> tried,
              competitor_data |-> competitor_data,
              prompt |-> p,
              settings |-> s]

(***************************************************************************)
(* UIHelpers.show_export_options: the three downloads it offers.  The full *)
(* report is the sequence of its lines; the JSON record is the dict given  *)
(* to json.dumps.                                                          *)
(***************************************************************************)
\* mutant: a missing provider or model left blank in the report
SettingOrUnknown_Blank(s, key) == <<Get(s, key, "")>>

\* settings.get(key, 'Unknown')
SettingOrUnknown(s, key) == <<Get(s, key, "Unknown")>>

\* settings.get(key): the value, or None
SettingOrNone(s, key) == IF key \in DOMAIN s THEN Text(s[key]) ELSE None

\* nothing is offered for download
NoExports == [shown |-> FALSE]

\* the head of both reports
ReportHead(title, s, now) ==
    << Fixed(title),
       Line("Generated: ", IntToStr(now)),
       Line("AI Provider: ", SettingOrUnknown(s, "ai_provider")),
       Line("Model: ", SettingOrUnknown(s, "model")) >>

\* the report of mode 'new_content'; data is the list of queries
NewContentReport(analysis, data, s, now) ==
    LET shown == Take(data, Get(s, "max_queries", 20))
        vts == Get(s, "variant_types", <<>>)
    IN  ReportHead("# Query Fan-Out Analysis Report - New Content Planning", s, now)
        \o <<Fixed("## Target Queries")>>
        \o [i \in 1..Len(shown) |-> Line("- {q}", shown[i])]
        \o << Fixed("## Analysis Settings"),
              Line("- Optimization Target: ", <<Get(s, "ai_search_type", "ai_mode")>>),
              Line("- Depth: ", Get(s, "depth", <<"Standard">>)),
              Line("- Variant Types: ", Join([i \in 1..Len(vts) |-> <<vts[i]>>], <<", ">>)),
              Fixed("## Analysis Results"),
              Line("{analysis}", <<analysis>>),
              Fixed("---"),
              Fixed("*Generated by Query Fan-Out Analysis Tool*") >>

\* the report of the other modes; data is the dict {'url', 'keyword'}
OptimizationReport(analysis, data, s, now) ==
    ReportHead("# Query Fan-Out Analysis Report - Content Optimization", s, now)
    \o << Fixed("## Content Details"),
          Line("- URL: ", data.url),
          Line("- Primary Keyword: ", data.keyword),
          Fixed("## Analysis Settings"),
          Line("- Optimization Target: ", <<Get(s, "ai_search_type", "ai_mode")>>),
          Line("- Depth: ", Get(s, "depth", <<"Standard">>)),
          Fixed("## Optimization Recommendations"),
          Line("{analysis}", <<analysis>>),
          Fixed("---"),
          Fixed("*Generated by Query Fan-Out Analysis Tool*") >>

\* UIHelpers.show_export_options(analysis, data, settings, mode)
show_export_options(analysis, data, s, mode, now) ==
    [shown |-> TRUE,
     markdown |-> analysis,
     report |-> IF mode = "new_content"
                THEN NewContentReport(analysis, data, s, now)
                ELSE OptimizationReport(analysis, data, s, now),
     json |-> [mode |-> mode,
               timestamp |-> now,
               ai_provider |-> SettingOrNone(s, "ai_provider"),
               model |-> SettingOrNone(s, "model"),
               data |-> IF mode = "new_content" THEN [queries |-> data] ELSE data,
               settings |-> s,
               analysis |-> analysis]]

(***************************************************************************)
(* The extraction step: fetch_content applied to a page and a source URL.  *)
(***************************************************************************)
NoSettings == <<>>

NoRun == [mode |-> "none", n |-> 0]

PromptIdle ==
    /\ settings = NoSettings
    /\ inputs = [builder |-> "none"]
    /\ prompt = <<>>
    /\ artifacts = NoExports

AppIdle ==
    /\ api_keys = [gemini |-> "", openai |-> "", anthropic |-> ""]
    /\ last_analysis = [set |-> FALSE]
    /\ run = NoRun

\* no analyzer and no provider was called directly
NoCall == [fn |-> "none"]

NoOutcome == [returned |-> FALSE]

CallIdle ==
    /\ called = NoCall
    /\ outcome = NoOutcome

\* no extractor was called directly
NotCalled == [fn |-> "none"]

\* the page the server holds and the URL the user entered
InitExtract ==
    /\ html \in Pages
    /\ url \in SourceUrls
    /\ content_data = Unfetched
    /\ extracted = NotCalled
    /\ PromptIdle
    /\ AppIdle
    /\ CallIdle

\* one call of ContentAnalyzer.fetch_content(url)
FetchContent ==
    /\ content_data = Unfetched
    /\ extracted = NotCalled
    /\ \E status \in FetchStatuses, now \in Clock :
           content_data' = fetch_content(status, html, url, now)
    /\ UNCHANGED <<html, url, extracted, promptVars, appVars, callVars>>

\* one call of ContentAnalyzer._extract_structured_data(soup) on the page as
\* it was parsed
ExtractStructuredData ==
    /\ content_data = Unfetched
    /\ extracted = NotCalled
    /\ extracted' = [fn |-> "_extract_structured_data",
                     value |-> _extract_structured_data(html)]
    /\ UNCHANGED <<html, url, content_data, promptVars, appVars, callVars>>

\* a second call of ContentAnalyzer.fetch_content(url) for the same page: the
\* response is parsed into a soup of its own
FetchContentAgain ==
    /\ content_data.ok
    /\ extracted = NotCalled
    /\ \E status \in FetchStatuses, now \in Clock :
           extracted' = [fn |-> "fetch_content", value |-> fetch_content(status, html, url, now)]
    /\ UNCHANGED <<html, url, content_data, promptVars, appVars, callVars>>

NextExtract == FetchContent \/ ExtractStructuredData \/ FetchContentAgain

SpecExtract == InitExtract /\ [][NextExtract]_vars

(***************************************************************************)
(* Claims about the extraction.                                            *)
(***************************************************************************)
InSeq(x, s) == \E i \in 1..Len(s) : s[i] = x

\* the link record fetch_content makes of an anchor
LinkOf(e) == [url |-> e.attrs["href"], text |-> Strip(e.text)]

IsAbsoluteHttp(href) == StartsWith(href, HttpSlashes) \/ StartsWith(href, HttpsSlashes)

\* the host an href has once resolved against the source URL (RFC 3986)
ResolvedHost(base, href) ==
    IF AfterScheme(href) # href \/ StartsWith(href, <<"/", "/">>)
    THEN Netloc(href)
    ELSE Netloc(base)

\* C1: after fetch_content, structured_data holds, in document order, the
\* parsed value of every JSON-LD block of the page whose text is valid JSON.
C1_StructuredDataHoldsValidBlocks ==
    content_data.ok => content_data.structured_data = _extract_structured_data(html)

\* C2: every anchor whose href is an absolute http(s) URL with a host other
\* than the source URL's host is in external_links and not in internal_links.
C2_OtherHostIsExternal ==
    content_data.ok =>
        \A i \in 1..Len(AnchorsWithHref(html)) :
            LET e == AnchorsWithHref(html)[i]
                href == e.attrs["href"]
            IN  (IsAbsoluteHttp(href) /\ Netloc(href) # Netloc(url)) =>
                    /\ InSeq(LinkOf(e), content_data.external_links)
                    /\ ~InSeq(LinkOf(e), content_data.internal_links)

\* C3: an anchor whose href is a mailto: link or starts with '#' is in
\* neither internal_links nor external_links.
C3_MailtoAndFragmentExcluded ==
    content_data.ok =>
        \A i \in 1..Len(AnchorsWithHref(html)) :
            LET e == AnchorsWithHref(html)[i]
                href == e.attrs["href"]
            IN  (StartsWith(href, MailTo) \/ StartsWith(href, <<"#">>)) =>
                    /\ ~InSeq(LinkOf(e), content_data.internal_links)
                    /\ ~InSeq(LinkOf(e), content_data.external_links)

\* C4: every anchor whose resolved href has the source URL's host, and every
\* anchor whose href starts with '/', is in internal_links.
C4_SameHostIsInternal ==
    content_data.ok =>
        \A i \in 1..Len(AnchorsWithHref(html)) :
            LET e == AnchorsWithHref(html)[i]
                href == e.attrs["href"]
            IN  (ResolvedHost(url, href) = Netloc(url) \/ StartsWith(href, <<"/">>)) =>
                    InSeq(LinkOf(e), content_data.internal_links)

\* C5: no anchor is listed in both internal_links and external_links.
C5_LinkListsDisjoint ==
    content_data.ok =>
        \A i \in 1..Len(content_data.internal_links) :
            ~InSeq(content_data.internal_links[i], content_data.external_links)

\* C5 witness: a page with an anchor in each list
C5_Witness ==
    /\ content_data.ok
    /\ content_data.internal_links # <<>>
    /\ content_data.external_links # <<>>

\* the indices of the elements of the fetched page with the tag
Tagged(tag) == { i \in 1..Len(html) : html[i].tag = tag }

\* the first of a non-empty set of indices
First(S) == CHOOSE i \in S : \A j \in S : i <= j

\* the text of element i of the fetched page and of the elements inside it
TextOf(i) ==
    LET inside == SelectSeq([j \in 1..Len(html) |-> j], LAMBDA j : IsWithin(html, j, i))
    IN  Flatten([k \in 1..Len(inside) |-> html[inside[k]].text])

\* C16: the title is the trimmed text of the first <title> element when the
\* page has one, otherwise the trimmed text of the first <h1> when it has
\* one, otherwise 'No title found'.
C16_TitleFallsBackToH1ThenSentinel ==
    content_data.ok =>
        content_data.title =
            IF Tagged("title") # {} THEN Strip(TextOf(First(Tagged("title"))))
            ELSE IF Tagged("h1") # {} THEN Strip(TextOf(First(Tagged("h1"))))
            ELSE NoTitleFound

\* C16 witness: a page with an <h1> before its <title>, of different texts
C16_Witness ==
    /\ content_data.ok
    /\ Tagged("title") # {}
    /\ Tagged("h1") # {}
    /\ First(Tagged("h1")) < First(Tagged("title"))
    /\ content_data.title = <<"t">>

\* the number of whitespace-delimited tokens of a text: the positions where a
\* token starts
TokenCount(text) ==
    Cardinality({ i \in 1..Len(text) : ~IsSpace(text[i]) /\ (i = 1 \/ IsSpace(text[i - 1])) })

\* C17: word_count is the number of whitespace-delimited tokens of the
\* extracted body text, and 0 when the body text is empty.
C17_WordCountCountsTokens ==
    content_data.ok =>
        /\ content_data.word_count = TokenCount(content_data.content)
        /\ content_data.content = <<>> => content_data.word_count = 0

\* C17 witness: a page whose body text holds two words and a space
C17_Witness ==
    /\ content_data.ok
    /\ content_data.word_count = 2
    /\ Len(content_data.content) = 3

\* the JSON-LD blocks of the page, in document order
JsonLdBlocks == SelectSeq(html, LAMBDA e : e.tag = "script" /\ Attr(e, "type", "") = LdJson)

\* the text is a JSON document: an object or array of the page's vocabulary
IsValidJson(text) == Strip(text) \in { <<"{", "}">>, <<"[", "1", " ", "]">>, <<"[", "1", "]">> }

ContainersOfKind(k) ==
    { i \in 1..Len(html) :
        LET e == html[i]
        IN  CASE k = 1 -> e.tag = "main"
              [] k = 2 -> e.tag = "article"
              [] k = 3 -> "role" \in DOMAIN e.attrs /\ e.attrs["role"] = "main"
              [] k = 4 -> "class" \in DOMAIN e.attrs /\ "content" \in e.attrs["class"]
              [] k = 5 -> "id" \in DOMAIN e.attrs /\ e.attrs["id"] = "content"
              [] OTHER -> e.tag = "body" }

\* the body text element i of the fetched page gives: the trimmed texts of
\* the element and of the elements inside it, scripts and styles apart,
\* joined by one space
ContainerText(i) ==
    LET inside == SelectSeq([j \in 1..Len(html) |-> j],
                            LAMBDA j : /\ IsWithin(html, j, i)
                                       /\ ~\E a \in 1..Len(html) :
                                             html[a].tag \in {"script", "style"} /\ IsWithin(html, j, a)
                                       /\ Strip(html[j].text) # <<>>)
    IN  CollapseSpaces(Join([k \in 1..Len(inside) |-> Strip(html[inside[k]].text)], <<" ">>))

\* C19: the body text is that of the first container of the highest kind the
\* page has, in the order main, article, role="main", class content, id
\* content, and of <body> only when the page has none of them.
C19_ContainerPriority ==
    content_data.ok =>
        /\ \A k \in 1..6 :
               (ContainersOfKind(k) # {} /\ \A h \in 1..(k - 1) : ContainersOfKind(h) = {})
                   => content_data.content = ContainerText(First(ContainersOfKind(k)))
        /\ (\A k \in 1..6 : ContainersOfKind(k) = {}) => content_data.content = <<>>

\* C19 witness: a page with an <article> before its <main>, whose body text
\* is the text of the <main>
C19_Witness ==
    /\ content_data.ok
    /\ ContainersOfKind(1) # {}
    /\ ContainersOfKind(2) # {}
    /\ First(ContainersOfKind(2)) < First(ContainersOfKind(1))
    /\ ContainersOfKind(6) # {}
    /\ content_data.content = <<"m">>

\* the <script> and <style> elements of the fetched page
ScriptsAndStyles == { i \in 1..Len(html) : html[i].tag \in {"script", "style"} }

\* the words of a text
Words(text) == { Split(text)[k] : k \in 1..Len(Split(text)) }

\* C20: no text located inside a <script> or <style> element appears in the
\* extracted body text, wherever the element is, the selected content
\* container included.  (The pages give scripts and styles words no other
\* element has.)
C20_NoScriptTextInBody ==
    content_data.ok =>
        \A i \in ScriptsAndStyles : Words(html[i].text) \cap Words(content_data.content) = {}

\* C20 witness: a page whose <main> holds a script with text and a paragraph,
\* of which the paragraph alone is in the body text
C20_Witness ==
    /\ content_data.ok
    /\ ContainersOfKind(1) # {}
    /\ \E i \in ScriptsAndStyles :
           /\ IsWithin(html, i, First(ContainersOfKind(1)))
           /\ Words(html[i].text) # {}
    /\ content_data.content = <<"w">>

\* the page was extracted twice
ExtractedTwice == content_data.ok /\ extracted.fn = "fetch_content" /\ extracted.value.ok

ExtractIdle ==
    /\ html = <<>>
    /\ url = <<>>
    /\ content_data = Unfetched
    /\ extracted = NotCalled

\* the keys a settings dict may hold as variant types: the catalog's, and one
\* the catalog does not know
VariantKeys ==
    { "equivalent", "follow_up", "generalization", "canonicalization",
      "entailment", "specification", "clarification", "synonym" }

Absent == <<>>

\* one optional entry of a dict
Entry(key, values) == { Absent } \cup { key :> v : v \in values }

SearchTypes == {"ai_overviews", "ai_mode", "both"}

\* the entries the sidebar always sets to the same kind of value
FixedSettings ==
    [depth |-> <<"Standard">>, ai_provider |-> "gemini", model |-> "gemini-2.5-pro"]

\* the analysis_settings dict of a planning run
PlanningDict(vt, st, em, cv, sc, co) ==
    vt @@ st @@ [include_entity_mapping |-> em, include_cross_verification |-> cv,
                 include_schema |-> sc, include_competitors |-> co,
                 mode |-> "new_content", target_audience |-> <<"SEO professionals">>,
                 content_type |-> <<"Guide">>] @@ FixedSettings

\* every list of variant types with the flags all clear or all set, and every
\* combination of the flags with three choices of the variant types
PlanningSettings ==
    { PlanningDict(vt, st, f, f, f, f) :
        vt \in Entry("variant_types", SeqsUpTo(VariantKeys, MaxVariants)),
        st \in Entry("ai_search_type", SearchTypes), f \in BOOLEAN }
    \cup
    { PlanningDict(vt, st, em, cv, sc, co) :
        vt \in Entry("variant_types", { <<>>, <<"equivalent", "follow_up">> }),
        st \in Entry("ai_search_type", SearchTypes),
        em \in BOOLEAN, cv \in BOOLEAN, sc \in BOOLEAN, co \in BOOLEAN }

QueryLists ==
    { <<>>, << <<"seo">> >>, << <<"ai mode">>, <<"seo">> >> }

OptimizationSettings ==
    { st @@ co @@ [mode |-> "optimize_existing", include_schema |-> TRUE] @@ FixedSettings :
        st \in Entry("ai_search_type", SearchTypes),
        co \in Entry("include_competitors", BOOLEAN) }

SamplePages ==
    { <<>>,
      InBody(<< Elem("h1", NoAttrs, <<"h", " ">>), Elem("p", NoAttrs, <<" ", "w", " ", "\n", "v", " ">>) >>),
      InBody(<< Elem("title", NoAttrs, <<" ", "t", " ">>), Anchor(<<"/", "p">>, <<"w">>),
                Elem("img", NoAttrs, <<>>), Script(LdJson, <<"{", "}">>) >>) }

SampleDocs == { ExtractContent(p, HttpsSlashes \o HostA \o <<"/">>, 1) : p \in SamplePages }

CompetitorDocs == { ExtractContent(p, HttpsSlashes \o HostB \o <<"/">>, 1) : p \in SamplePages }

\* a body text of one word more than the excerpt keeps: one-digit words, each
\* followed by a space
LongText == [i \in 1..(2 * (ExcerptLimit + 1)) |-> IF i % 2 = 1 THEN Digit(((i + 1) \div 2) % 10) ELSE " "]

\* a page whose body text is longer than the excerpt
LongDocs == { ExtractContent(InBody(<<Elem("p", NoAttrs, LongText)>>), HttpsSlashes \o HostA \o <<"/">>, 1) }

\* a page with one heading more than the heading structure keeps: <h2>
\* elements whose texts are their numbers
ManyHeadingsDocs ==
    { ExtractContent(InBody([i \in 1..(HeadingLimit + 1) |-> Elem("h2", NoAttrs, IntToStr(i))]),
                     HttpsSlashes \o HostA \o <<"/">>, 1) }

\* a page whose heading is written on two lines: strip() keeps the line break
\* inside the text
WrappedHeadingDocs ==
    { ExtractContent(InBody(<<Elem("h1", NoAttrs, <<" ", "w", " ", "\n", "v", " ">>)>>),
                     HttpsSlashes \o HostA \o <<"/">>, 1) }

KeywordLists == { <<>>, << <<"k1">> >>, << <<"k1">>, <<"k2">> >> }

PlanningInputs == { [builder |-> "planning", queries_list |-> q] : q \in QueryLists }

OptimizationInputs ==
    { [builder |-> "optimization", content_data |-> d, primary_keyword |-> <<"seo">>,
       additional_keywords |-> k, competitor_data |-> c] :
        d \in SampleDocs, k \in KeywordLists, c \in SeqsUpTo(CompetitorDocs, 2) }
    \cup
    { [builder |-> "optimization", content_data |-> d, primary_keyword |-> <<"seo">>,
       additional_keywords |-> <<>>, competitor_data |-> <<>>] :
        d \in LongDocs \cup ManyHeadingsDocs \cup WrappedHeadingDocs }

\* settings dicts from which any of the entries the exports read may be
\* missing
ExportSettings ==
    { pr @@ mo @@ st @@ de @@ vt @@ mq @@ [include_schema |-> TRUE] :
        pr \in Entry("ai_provider", {"openai"}), mo \in Entry("model", {"o1"}),
        st \in Entry("ai_search_type", {"both"}), de \in Entry("depth", { <<"Deep">> }),
        vt \in Entry("variant_types", { <<"equivalent", "follow_up">> }),
        mq \in Entry("max_queries", {1}) }

\* one query more than the report lists when max_queries is missing
ManyQueries == [i \in 1..21 |-> <<"q">>]

\* the arguments of show_export_options in mode 'new_content': data is the
\* list of queries
QueryExportInputs ==
    { [builder |-> "export", mode |-> "new_content", analysis |-> "the analysis", data |-> q] :
        q \in QueryLists \cup { ManyQueries } }

\* the arguments of show_export_options in mode 'optimize_existing': data is
\* the dict of the URL and the keyword
UrlExportInputs ==
    { [builder |-> "export", mode |-> "optimize_existing", analysis |-> "the analysis",
       data |-> [url |-> HttpsSlashes \o HostA \o <<"/">>, keyword |-> <<"seo">>]] }

InitPrompt ==
    /\ ExtractIdle
    /\ AppIdle
    /\ CallIdle
    /\ prompt = <<>>
    /\ artifacts = NoExports
    /\ \/ inputs \in PlanningInputs /\ settings \in PlanningSettings
       \/ inputs \in OptimizationInputs /\ settings \in OptimizationSettings
       \/ inputs \in QueryExportInputs /\ settings \in ExportSettings
       \/ inputs \in UrlExportInputs /\ settings \in ExportSettings

\* one call of QueryAnalyzer._build_new_content_prompt
BuildNewContentPrompt ==
    /\ inputs.builder = "planning"
    /\ prompt = <<>>
    /\ prompt' = _build_new_content_prompt(inputs.queries_list, settings)
    /\ UNCHANGED <<settings, inputs, artifacts, extractVars, appVars, callVars>>

\* one call of ContentAnalyzer._build_optimization_prompt
BuildOptimizationPrompt ==
    /\ inputs.builder = "optimization"
    /\ prompt = <<>>
    /\ prompt' = _build_optimization_prompt(inputs.content_data, inputs.primary_keyword,
                     inputs.additional_keywords, inputs.competitor_data, settings)
    /\ UNCHANGED <<settings, inputs, artifacts, extractVars, appVars, callVars>>

\* one call of UIHelpers.show_export_options
ShowExportOptions ==
    /\ inputs.builder = "export"
    /\ artifacts = NoExports
    /\ \E now \in Clock :
           artifacts' = show_export_options(inputs.analysis, inputs.data, settings, inputs.mode, now)
    /\ UNCHANGED <<settings, inputs, prompt, extractVars, appVars, callVars>>

NextPrompt == BuildNewContentPrompt \/ BuildOptimizationPrompt \/ ShowExportOptions

SpecPrompt == InitPrompt /\ [][NextPrompt]_vars

(***************************************************************************)
(* Claims about the prompt builders.                                       *)
(***************************************************************************)
PlanningBuilt == inputs.builder = "planning" /\ prompt # <<>>

OptimizationBuilt == inputs.builder = "optimization" /\ prompt # <<>>

\* the position of a catalog key in the catalog
CatalogIndex(key) == CHOOSE i \in 1..Len(VARIANT_TYPES) : VARIANT_TYPES[i] = key

CatalogKeys == { VARIANT_TYPES[i] : i \in 1..Len(VARIANT_TYPES) }

\* the catalog keys whose description (instruction) lines the prompt holds,
\* in the order of the lines
DescribedKinds(p) ==
    LET ls == SelectSeq(p, LAMBDA l : \E key \in CatalogKeys : VariantDescription(key) = <<l>>)
    IN  [i \in 1..Len(ls) |-> CHOOSE key \in CatalogKeys : VariantDescription(key) = <<ls[i]>>]

InstructedKinds(p) ==
    LET ls == SelectSeq(p, LAMBDA l : \E key \in CatalogKeys : VariantInstruction(key) = <<l>>)
    IN  [i \in 1..Len(ls) |-> CHOOSE key \in CatalogKeys : VariantInstruction(key) = <<ls[i]>>]

InCatalogOrder(kinds) ==
    \A i \in 1..Len(kinds), j \in 1..Len(kinds) :
        i < j => CatalogIndex(kinds[i]) <= CatalogIndex(kinds[j])

\* C6 as claimed: the description lines and the instruction lines of the
\* selected variant types appear in the catalog's order, whatever the order of
\* settings['variant_types'].
C6_VariantLinesInCatalogOrder ==
    PlanningBuilt =>
        /\ InCatalogOrder(DescribedKinds(prompt))
        /\ InCatalogOrder(InstructedKinds(prompt))

\* C6 as amended: the description lines and the instruction lines appear in
\* the order in which settings['variant_types'] lists the types (keys the
\* catalog does not know are skipped, a repeated key is repeated).
C6_VariantLinesInInputOrder ==
    (PlanningBuilt /\ "variant_types" \in DOMAIN settings) =>
        LET known == SelectSeq(settings["variant_types"], LAMBDA key : key \in CatalogKeys)
        IN  /\ DescribedKinds(prompt) = known
            /\ InstructedKinds(prompt) = known

\* C6 witness: a prompt built for types listed against the catalog's order
C6_Witness ==
    /\ PlanningBuilt
    /\ "variant_types" \in DOMAIN settings
    /\ settings["variant_types"] = <<"specification", "equivalent">>

\* the lines of section 11 of the optimization template
Section11Lines == { Section11Heading[i] : i \in 1..Len(Section11Heading) }
                      \cup { Section11Body[i] : i \in 1..Len(Section11Body) }

HasLine(p, l) == \E i \in 1..Len(p) : p[i] = l

\* C11: when settings['variant_types'] is given, the planning prompt holds the
\* description line of each of the seven variant kinds if the kind is in
\* settings['variant_types'], and does not hold it if the kind is not.
C11_DescriptionIffSelected ==
    (PlanningBuilt /\ "variant_types" \in DOMAIN settings) =>
        \A key \in CatalogKeys :
            HasLine(prompt, VariantDescription(key)[1]) <=> InSeq(key, settings["variant_types"])

\* C11 witness: a prompt built for one catalog kind and one unknown key
C11_Witness ==
    /\ PlanningBuilt
    /\ "variant_types" \in DOMAIN settings
    /\ settings["variant_types"] = <<"entailment", "synonym">>
    /\ HasLine(prompt, VariantDescription("entailment")[1])

\* C12: the planning prompt holds the heading of section 4 exactly when
\* ai_search_type is 'ai_overviews' or 'both', and the heading of section 5
\* exactly when ai_search_type is 'ai_mode' or 'both'.
C12_SearchTypeSelectsSections ==
    PlanningBuilt =>
        LET given == "ai_search_type" \in DOMAIN settings
        IN  /\ HasLine(prompt, Fixed("## 4. AI OVERVIEWS OPTIMIZATION"))
                  <=> (given /\ settings["ai_search_type"] \in {"ai_overviews", "both"})
            /\ HasLine(prompt, Fixed("## 5. AI MODE OPTIMIZATION"))
                  <=> (given /\ settings["ai_search_type"] \in {"ai_mode", "both"})

\* C12 witness: a prompt built for AI Overviews alone, with section 4 and
\* without section 5
C12_Witness ==
    /\ PlanningBuilt
    /\ "ai_search_type" \in DOMAIN settings
    /\ settings["ai_search_type"] = "ai_overviews"
    /\ HasLine(prompt, Fixed("## 4. AI OVERVIEWS OPTIMIZATION"))
    /\ ~HasLine(prompt, Fixed("## 5. AI MODE OPTIMIZATION"))

\* the flag is in the settings and is True
IsSet(key) == key \in DOMAIN settings /\ settings[key] = TRUE

\* C13: each of the sections 6 (entity mapping), 7 (cross-verification),
\* 8 (schema markup) and 9 (competitive differentiation) of the planning
\* prompt is present if and only if its own flag is set, whatever the other
\* flags and ai_search_type are.
C13_FlagSelectsItsSection ==
    PlanningBuilt =>
        /\ HasLine(prompt, Fixed("## 6. ENTITY MAPPING")) <=> IsSet("include_entity_mapping")
        /\ HasLine(prompt, Fixed("## 7. CROSS-VERIFICATION STRATEGY"))
              <=> IsSet("include_cross_verification")
        /\ HasLine(prompt, Fixed("## 8. SCHEMA MARKUP STRATEGY")) <=> IsSet("include_schema")
        /\ HasLine(prompt, Fixed("## 9. COMPETITIVE DIFFERENTIATION"))
              <=> IsSet("include_competitors")

\* C13 witness: a prompt built with one flag set and the three others clear
C13_Witness ==
    /\ PlanningBuilt
    /\ IsSet("include_schema")
    /\ ~IsSet("include_entity_mapping")
    /\ ~IsSet("include_cross_verification")
    /\ ~IsSet("include_competitors")
    /\ HasLine(prompt, Fixed("## 8. SCHEMA MARKUP STRATEGY"))
    /\ ~HasLine(prompt, Fixed("## 6. ENTITY MAPPING"))

\* the '## N.' headings of the planning template, at the index of their numeral
PlanningHeadings ==
    << Fixed("## 1. QUERY FAN-OUT GENERATION"),
       Fixed("## 2. MULTI-PATH EXPLORATION"),
       Fixed("## 3. CONTENT ARCHITECTURE"),
       Fixed("## 4. AI OVERVIEWS OPTIMIZATION"),
       Fixed("## 5. AI MODE OPTIMIZATION"),
       Fixed("## 6. ENTITY MAPPING"),
       Fixed("## 7. CROSS-VERIFICATION STRATEGY"),
       Fixed("## 8. SCHEMA MARKUP STRATEGY"),
       Fixed("## 9. COMPETITIVE DIFFERENTIATION"),
       Fixed("## 10. IMPLEMENTATION ROADMAP"),
       Fixed("## 11. SUCCESS METRICS") >>

\* the line that follows the heading of each optional section in the template
FirstBodyLine(n) ==
    CASE n = 4 -> Fixed("For quick answer optimization:")
      [] n = 5 -> Fixed("For complex query fan-out:")
      [] n = 6 -> Fixed("- **Core Entities**: Primary entities to define")
      [] n = 7 -> Fixed("- **Fact Verification**: Key facts to verify and cite")
      [] n = 8 -> Fixed("- **Essential Schemas**: Required schema types")
      [] n = 9 -> Fixed("- **Content Gaps**: What competitors likely miss")

\* the numerals of the template headings the prompt holds, in the order of
\* the lines
HeadingNumerals(p) ==
    LET hs == SelectSeq(p, LAMBDA l : \E n \in 1..11 : PlanningHeadings[n] = l)
    IN  [i \in 1..Len(hs) |-> CHOOSE n \in 1..11 : PlanningHeadings[n] = hs[i]]

\* C14: every emitted section of the planning prompt keeps the numeral of the
\* template: the numerals of the emitted headings increase strictly, always
\* include 1, 2, 3, 10 and 11, and the body of each optional section stands
\* under the heading the template gives it, whichever sections are omitted.
C14_SectionsKeepTheirNumerals ==
    PlanningBuilt =>
        LET ns == HeadingNumerals(prompt)
        IN  /\ \A i \in 1..Len(ns), j \in 1..Len(ns) : i < j => ns[i] < ns[j]
            /\ \A n \in {1, 2, 3, 10, 11} : InSeq(n, ns)
            /\ \A n \in 4..9 : \A i \in 1..Len(prompt) :
                   prompt[i] = FirstBodyLine(n) => (i > 1 /\ prompt[i - 1] = PlanningHeadings[n])

\* C14 witness: a prompt with sections 4 and 6 omitted and sections 5 and 7
\* emitted
C14_Witness ==
    /\ PlanningBuilt
    /\ HeadingNumerals(prompt) = <<1, 2, 3, 5, 7, 10, 11>>
    /\ HasLine(prompt, FirstBodyLine(7))

\* the content excerpt the optimization prompt holds
ExcerptOf(p) ==
    LET ls == SelectSeq(p, LAMBDA l : l.t = "{content_excerpt}")
    IN  ls[1].v

ExportBuilt == inputs.builder = "export" /\ artifacts.shown

\* the value the report shows on its line of template t
ReportValue(t) ==
    LET ls == SelectSeq(artifacts.report, LAMBDA l : l.t = t)
    IN  ls[1].v

Missing(key) == key \notin DOMAIN settings

\* C23 as claimed: in the full report and in the JSON record, every setting
\* missing from the settings is filled with 'Unknown'.
C23_MissingSettingsShownUnknown ==
    ExportBuilt =>
        /\ Missing("ai_provider") =>
               (ReportValue("AI Provider: ") = <<"Unknown">>
                   /\ artifacts.json.ai_provider = Text("Unknown"))
        /\ Missing("model") =>
               (ReportValue("Model: ") = <<"Unknown">> /\ artifacts.json.model = Text("Unknown"))
        /\ Missing("ai_search_type") => ReportValue("- Optimization Target: ") = <<"Unknown">>
        /\ Missing("depth") => ReportValue("- Depth: ") = <<"Unknown">>

\* C23 as amended: the report fills a missing ai_provider or model with
\* 'Unknown', a missing ai_search_type with 'ai_mode', a missing depth with
\* 'Standard', a missing variant_types with the empty list and a missing
\* max_queries with 20; the JSON record holds None for a missing ai_provider
\* or model and the settings as they are, with nothing filled in.
C23_MissingSettingDefaults ==
    ExportBuilt =>
        /\ Missing("ai_provider") =>
               (ReportValue("AI Provider: ") = <<"Unknown">> /\ artifacts.json.ai_provider = None)
        /\ Missing("model") =>
               (ReportValue("Model: ") = <<"Unknown">> /\ artifacts.json.model = None)
        /\ Missing("ai_search_type") => ReportValue("- Optimization Target: ") = <<"ai_mode">>
        /\ Missing("depth") => ReportValue("- Depth: ") = <<"Standard">>
        /\ (inputs.mode = "new_content" /\ Missing("variant_types")) =>
               ReportValue("- Variant Types: ") = <<>>
        /\ (inputs.mode = "new_content" /\ Missing("max_queries")) =>
               Len(SelectSeq(artifacts.report, LAMBDA l : l.t = "- {q}"))
                   = (IF Len(inputs.data) < 20 THEN Len(inputs.data) ELSE 20)
        /\ artifacts.json.settings = settings

\* C23 witness: the exports of a planning run of 21 queries whose settings
\* lack every entry the exports read
C23_Witness ==
    /\ ExportBuilt
    /\ inputs.mode = "new_content"
    /\ Len(inputs.data) = 21
    /\ \A key \in {"ai_provider", "model", "ai_search_type", "depth", "variant_types", "max_queries"} :
           Missing(key)
    /\ ReportValue("AI Provider: ") = <<"Unknown">>

\* C26: in the planning prompt, for every settings value (one without a
\* variant_types entry included) and every one of the seven variant kinds, the
\* description line of the kind is present if and only if its instruction
\* line under section 1 is present.
C26_DescriptionIffInstruction ==
    PlanningBuilt =>
        \A key \in CatalogKeys :
            HasLine(prompt, VariantDescription(key)[1]) <=> HasLine(prompt, VariantInstruction(key)[1])

\* the lines of the heading-structure block of the prompt
HeadingBlock(p) == SelectSeq(p, LAMBDA l : l.t = "{level}: {text}")

\* the tag names of the headings in capitals
Capitals == [h1 |-> "H1", h2 |-> "H2", h3 |-> "H3", h4 |-> "H4", h5 |-> "H5", h6 |-> "H6"]

LineBreaks(v) == Len(SelectSeq(v, LAMBDA c : c = "\n"))
RECURSIVE TextLines(_)
TextLines(block) ==
    IF block = <<>> THEN 0 ELSE 1 + LineBreaks(Head(block).v) + TextLines(Tail(block))

Providers == {"gemini", "openai", "anthropic"}

\* the key a user holds for a provider
KeyOf(provider) ==
    CASE provider = "gemini" -> "AIza-key"
      [] provider = "openai" -> "sk-key"
      [] provider = "anthropic" -> "ant-key"

\* the first model the sidebar offers for a provider
FirstModel(provider) ==
    CASE provider = "gemini" -> "gemini-2.5-pro"
      [] provider = "openai" -> "o1"
      [] provider = "anthropic" -> "claude-3-5-sonnet-20241022"

\* mutant: the provider selectbox offers every provider
available_providers_Unfiltered == Providers

\* available_providers: the providers whose stored key is not empty
available_providers == { q \in Providers : api_keys[q] # "" }

\* the choices of the variant-type multiselect: nothing, the default, and a
\* selection made against the catalog's order
AppVariantChoices ==
    { <<>>,
      <<"equivalent", "follow_up", "specification", "entailment">>,
      <<"follow_up", "equivalent">> }

AppSearchTypes == {"ai_overviews", "both"}

AppQueryLists == { << <<"seo">> >>, << <<"ai mode">>, <<"seo">> >> }

MaxQueriesSlider == 20

MaxTopicsSlider == 15

TargetUrl == HttpsSlashes \o HostA \o <<"/">>

CompetitorUrl(n) == HttpsSlashes \o HostB \o <<"/">> \o IntToStr(n)

AppCompetitorLists ==
    { <<>>, <<CompetitorUrl(1), CompetitorUrl(2), CompetitorUrl(3), CompetitorUrl(4)>> }

\* the pages of the web the app fetches from
PageAt ==
    [u \in {TargetUrl} \cup { CompetitorUrl(n) : n \in 1..4 } |->
        IF u = TargetUrl
        THEN InBody(<< Elem("h1", NoAttrs, <<"h", " ">>), Elem("p", NoAttrs, <<" ", "w", " ", "\n", "v", " ">>) >>)
        ELSE InBody(<< Elem("title", NoAttrs, <<" ", "t", " ">>), Anchor(<<"/", "p">>, <<"w">>) >>)]

\* the sets of pages that cannot be fetched during a run
DownSets ==
    { {}, {TargetUrl}, {CompetitorUrl(2)}, {CompetitorUrl(1), CompetitorUrl(3)},
      {CompetitorUrl(1), CompetitorUrl(2), CompetitorUrl(3)} }

AppNow == 1

InitApp ==
    /\ ExtractIdle
    /\ PromptIdle
    /\ AppIdle
    /\ CallIdle

\* a key typed into one of the three API key inputs of the sidebar
SetApiKey ==
    /\ \E q \in Providers : \E key \in {"", KeyOf(q)} :
           /\ key # api_keys[q]
           /\ api_keys' = [api_keys EXCEPT ![q] = key]
    /\ UNCHANGED <<last_analysis, run, extractVars, promptVars, callVars>>

\* what a run-button handler does when the selected provider has no key
NoKeyOutcome(mode, ai_provider) ==
    [run |-> [mode |-> mode, n |-> run.n + 1, settings |-> NoSettings, api_key |-> "",
              analysis |-> None, calls |-> <<>>, fetches |-> <<>>, competitor_data |-> <<>>,
              prompt |-> <<>>,
              ui |-> <<Message("No API key configured for ", <<ai_provider>>)>>,
              exported |-> FALSE, settings_after |-> NoSettings, exports |-> NoExports],
     last |-> last_analysis]

\* the analysis_settings dict the new-content handler builds
NewContentSettings(ai_provider, queries, variant_types, st, include_competitors, more) ==
    [max_queries |-> IF MaxQueriesSlider < Len(queries) THEN MaxQueriesSlider ELSE Len(queries),
     depth |-> <<"Standard">>,
     include_schema |-> TRUE,
     include_competitors |-> include_competitors,
     mode |-> "new_content",
     ai_search_type |-> st,
     variant_types |-> variant_types,
     include_entity_mapping |-> st \in {"ai_mode", "both"} /\ more,
     include_cross_verification |-> st \in {"ai_mode", "both"} /\ more,
     include_snippet_optimization |-> st \in {"ai_overviews", "both"} /\ more,
     include_paa_optimization |-> st \in {"ai_overviews", "both"} /\ more,
     ai_provider |-> ai_provider,
     model |-> FirstModel(ai_provider),
     target_audience |-> <<"SEO professionals">>,
     content_type |-> <<"Guide">>]

\* mutant: the handler stores whatever the analysis returned
NewContentOutcome_StoresFailure(r, s, queries, api_key) ==
    [run |-> [mode |-> "new_content", n |-> run.n + 1, settings |-> s, api_key |-> api_key,
              analysis |-> r.ret, calls |-> r.calls, fetches |-> r.fetches,
              competitor_data |-> r.competitor_data, prompt |-> r.prompt,
              ui |-> r.ui \o (IF r.ret.kind = "raised"
                              THEN <<Message("Error during analysis: ", <<r.ret.text>>)>>
                              ELSE IF Truthy(r.ret) THEN <<>>
                              ELSE <<Message("Analysis failed. Please check your API key and try again.", <<>>)>>),
              exported |-> Truthy(r.ret),
              settings_after |-> r.settings,
              exports |-> IF Truthy(r.ret)
                          THEN show_export_options(r.ret.text, queries, r.settings,
                                                   "new_content", AppNow)
                          ELSE NoExports],
     last |-> [set |-> TRUE, timestamp |-> AppNow, analysis |-> r.ret.text,
               settings |-> r.settings, subject |-> queries]]

\* what the new-content handler does with the value the analysis returned
NewContentOutcome(r, s, queries, api_key) ==
    [run |-> [mode |-> "new_content", n |-> run.n + 1, settings |-> s, api_key |-> api_key,
              analysis |-> r.ret, calls |-> r.calls, fetches |-> r.fetches,
              competitor_data |-> r.competitor_data, prompt |-> r.prompt,
              ui |-> r.ui \o (IF r.ret.kind = "raised"
                              THEN <<Message("Error during analysis: ", <<r.ret.text>>)>>
                              ELSE IF Truthy(r.ret) THEN <<>>
                              ELSE <<Message("Analysis failed. Please check your API key and try again.", <<>>)>>),
              exported |-> Truthy(r.ret),
              settings_after |-> r.settings,
              exports |-> IF Truthy(r.ret)
                          THEN show_export_options(r.ret.text, queries, r.settings,
                                                   "new_content", AppNow)
                          ELSE NoExports],
     last |-> IF Truthy(r.ret)
              THEN [set |-> TRUE, timestamp |-> AppNow, analysis |-> r.ret.text,
                    settings |-> r.settings, subject |-> queries]
              ELSE last_analysis]

\* the "Run Query Fan-Out Analysis" button, pressed at most maxRuns times with
\* the widgets set to values of the given sets
RunNewContentFrom(queryLists, variantChoices, searchTypes, answers, maxRuns) ==
    /\ run.n < maxRuns
    /\ available_providers # {}
    /\ \E ai_provider \in available_providers, queries \in queryLists,
          variant_types \in variantChoices, st \in searchTypes, answer \in answers :
           LET api_key == api_keys[ai_provider]
               s == NewContentSettings(ai_provider, queries, variant_types, st, FALSE, TRUE)
               r == analyze_query_fanout_new_content(Take(queries, MaxQueriesSlider),
                                                     api_key, s, answer)
               out == IF api_key = ""
                      THEN NoKeyOutcome("new_content", ai_provider)
                      ELSE NewContentOutcome(r, s, queries, api_key)
           IN  /\ run' = [answer |-> answer, down |-> {}, competitor_urls |-> <<>>,
                          ai_provider |-> ai_provider] @@ out.run
               /\ last_analysis' = out.last
    /\ UNCHANGED <<api_keys, extractVars, promptVars, callVars>>

RunNewContent ==
    RunNewContentFrom(AppQueryLists, AppVariantChoices, AppSearchTypes, ProviderAnswers, MaxRuns)

\* the analysis_settings dict the optimize handler builds
OptimizeSettings(ai_provider, competitor_url_list, variant_types, st, include_competitors, more) ==
    [depth |-> <<"Standard">>,
     include_schema |-> TRUE,
     include_competitors |-> include_competitors /\ Len(competitor_url_list) > 0,
     mode |-> "optimize_existing",
     ai_search_type |-> st,
     variant_types |-> variant_types,
     include_entity_mapping |-> st \in {"ai_mode", "both"} /\ more,
     include_cross_verification |-> st \in {"ai_mode", "both"} /\ more,
     include_snippet_optimization |-> st \in {"ai_overviews", "both"} /\ more,
     include_paa_optimization |-> st \in {"ai_overviews", "both"} /\ more,
     ai_provider |-> ai_provider,
     model |-> FirstModel(ai_provider),
     analyze_readability |-> TRUE,
     analyze_structure |-> TRUE,
     analyze_entities |-> TRUE,
     analyze_gaps |-> TRUE,
     max_topics |-> MaxTopicsSlider]

\* what the optimize handler does once the target page is fetched
OptimizeOutcome(doc, r, s, api_key, primary_keyword) ==
    IF ~doc.ok
    THEN [run |-> [mode |-> "optimize_existing", n |-> run.n + 1, settings |-> NoSettings,
                   api_key |-> api_key, analysis |-> None, calls |-> <<>>,
                   fetches |-> <<TargetUrl>>, competitor_data |-> <<>>, prompt |-> <<>>,
                   ui |-> << Message("Error fetching content: ", TargetUrl),
                             Message("Could not fetch content from the provided URL. Please check the URL and try again.", <<>>) >>,
                   exported |-> FALSE, settings_after |-> NoSettings, exports |-> NoExports],
          last |-> last_analysis]
    ELSE [run |-> [mode |-> "optimize_existing", n |-> run.n + 1, settings |-> s,
                   api_key |-> api_key, analysis |-> r.ret, calls |-> r.calls,
                   fetches |-> <<TargetUrl>> \o r.fetches,
                   competitor_data |-> r.competitor_data, prompt |-> r.prompt,
                   ui |-> r.ui \o (IF r.ret.kind = "raised"
                                   THEN <<Message("Error during analysis: ", <<r.ret.text>>)>>
                                   ELSE IF Truthy(r.ret) THEN <<>>
                                   ELSE <<Message("Analysis failed. Please check your API key and try again.", <<>>)>>),
                   exported |-> Truthy(r.ret),
                   settings_after |-> r.settings,
                   exports |-> IF Truthy(r.ret)
                               THEN show_export_options(r.ret.text,
                                        [url |-> TargetUrl, keyword |-> primary_keyword],
                                        r.settings, "optimize_existing", AppNow)
                               ELSE NoExports],
          last |-> IF Truthy(r.ret)
                   THEN [set |-> TRUE, timestamp |-> AppNow, analysis |-> r.ret.text,
                         settings |-> r.settings, subject |-> TargetUrl]
                   ELSE last_analysis]

\* the "Analyze & Optimize Content" button, pressed at most maxRuns times with
\* the widgets and the web set to values of the given sets
RunOptimizeExistingFrom(competitorLists, downSets, answers, maxRuns) ==
    /\ run.n < maxRuns
    /\ available_providers # {}
    /\ \E ai_provider \in available_providers, competitor_url_list \in competitorLists,
          include_competitors \in BOOLEAN, down \in downSets, answer \in answers :
           LET api_key == api_keys[ai_provider]
               doc == FetchAt(TargetUrl, PageAt, down, AppNow)
               s == OptimizeSettings(ai_provider, competitor_url_list,
                        <<"equivalent", "follow_up", "specification", "entailment">>,
                        "both", include_competitors, TRUE)
               r == analyze_existing_content(doc, <<"seo">>, << <<"k1">> >>,
                        competitor_url_list, api_key, s, PageAt, down, AppNow, answer)
               out == IF api_key = ""
                      THEN NoKeyOutcome("optimize_existing", ai_provider)
                      ELSE OptimizeOutcome(doc, r, s, api_key, <<"seo">>)
           IN  /\ run' = [answer |-> answer, down |-> down,
                          competitor_urls |-> competitor_url_list,
                          ai_provider |-> ai_provider] @@ out.run
               /\ last_analysis' = out.last
    /\ UNCHANGED <<api_keys, extractVars, promptVars, callVars>>

RunOptimizeExisting ==
    RunOptimizeExistingFrom(AppCompetitorLists, DownSets, ProviderAnswers, MaxRuns)

NextApp == SetApiKey \/ RunNewContent \/ RunOptimizeExisting

SpecApp == InitApp /\ [][NextApp]_vars

(***************************************************************************)
(* A session of several runs: the same sidebar and the same two handlers,  *)
(* with fewer values for the widgets, so that runs can follow one another  *)
(* with key edits in between.                                              *)
(***************************************************************************)
MaxSessionRuns == 2

SessionAnswers ==
    { [kind |-> "text", text |-> "the analysis"],
      [kind |-> "text", text |-> ""],
      [kind |-> "error", text |-> "quota exceeded"] }

SessionDownSets == { {}, {TargetUrl} }

RunNewContentInSession ==
    RunNewContentFrom({ << <<"seo">> >> }, { <<"equivalent", "follow_up">> }, {"both"}, SessionAnswers, MaxSessionRuns)

RunOptimizeExistingInSession ==
    RunOptimizeExistingFrom({ <<>> }, SessionDownSets, SessionAnswers, MaxSessionRuns)

NextSession == SetApiKey \/ RunNewContentInSession \/ RunOptimizeExistingInSession

SpecSession == InitApp /\ [][NextSession]_vars

(***************************************************************************)
(* Direct calls of the two analyzers and of AIProvider.generate_content,   *)
(* with the arguments a caller can pass: an empty key, settings without an *)
(* ai_provider entry or with a name that is no provider.                   *)
(***************************************************************************)
CallSettings ==
    { pv @@ md @@ [include_competitors |-> ic] :
        pv \in Entry("ai_provider", Providers \cup {"mistral", "Gemini"}),
        md \in Entry("model", {"gpt-4o"}), ic \in BOOLEAN }

CallKeys == {"", "sk-key"}

CallInputs ==
    { [fn |-> "analyze_query_fanout_new_content", api_key |-> k, settings |-> s,
       queries |-> << <<"seo">> >>, competitor_urls |-> <<>>, down |-> {}, answer |-> a] :
        k \in CallKeys, s \in CallSettings, a \in ProviderAnswers }
    \cup
    { [fn |-> "analyze_existing_content", api_key |-> k, settings |-> s,
       queries |-> <<>>, competitor_urls |-> c, down |-> d, answer |-> a] :
        k \in CallKeys, s \in CallSettings, c \in AppCompetitorLists,
        d \in { {}, {CompetitorUrl(2)} }, a \in ProviderAnswers }
    \cup
    { [fn |-> "generate_content", api_key |-> k, settings |-> s,
       queries |-> <<>>, competitor_urls |-> <<>>, down |-> {}, answer |-> a] :
        k \in CallKeys, s \in CallSettings, a \in ProviderAnswers }

InitCall ==
    /\ ExtractIdle
    /\ PromptIdle
    /\ AppIdle
    /\ called \in CallInputs
    /\ outcome = NoOutcome

\* one call of QueryAnalyzer.analyze_query_fanout_new_content
AnalyzeQueryFanoutNewContent ==
    /\ called.fn = "analyze_query_fanout_new_content"
    /\ outcome = NoOutcome
    /\ outcome' = [returned |-> TRUE]
                     @@ analyze_query_fanout_new_content(called.queries, called.api_key,
                                                         called.settings, called.answer)
    /\ UNCHANGED <<called, extractVars, promptVars, appVars>>

\* one call of ContentAnalyzer.analyze_existing_content for the fetched
\* target page
AnalyzeExistingContent ==
    /\ called.fn = "analyze_existing_content"
    /\ outcome = NoOutcome
    /\ outcome' = [returned |-> TRUE]
                     @@ analyze_existing_content(FetchAt(TargetUrl, PageAt, {}, AppNow),
                            <<"seo">>, <<>>, called.competitor_urls, called.api_key,
                            called.settings, PageAt, called.down, AppNow, called.answer)
    /\ UNCHANGED <<called, extractVars, promptVars, appVars>>

\* one call of AIProvider.generate_content
GenerateContent ==
    /\ called.fn = "generate_content"
    /\ outcome = NoOutcome
    /\ outcome' = [returned |-> TRUE]
                     @@ generate_content(<<Fixed("a prompt")>>, called.api_key,
                                         called.settings, called.answer)
    /\ UNCHANGED <<called, extractVars, promptVars, appVars>>

NextCall == AnalyzeQueryFanoutNewContent \/ AnalyzeExistingContent \/ GenerateContent

SpecCall == InitCall /\ [][NextCall]_vars

(***************************************************************************)
(* Claims about the direct calls.                                          *)
(***************************************************************************)
\* an analyzer was called with an empty API key and has returned
NoKeyCall ==
    /\ called.fn \in {"analyze_query_fanout_new_content", "analyze_existing_content"}
    /\ outcome.returned
    /\ called.api_key = ""

\* C27: with an empty API key, analyze_query_fanout_new_content and
\* analyze_existing_content return None without fetching a competitor page,
\* without building a prompt and without calling a provider.
C27_EmptyKeyDoesNothing ==
    NoKeyCall =>
        /\ outcome.ret = None
        /\ outcome.fetches = <<>>
        /\ outcome.prompt = <<>>
        /\ outcome.backends = <<>>
        /\ outcome.calls = <<>>

\* C27 witness: analyze_existing_content called without a key, with
\* competitor pages it would have fetched
C27_Witness ==
    /\ NoKeyCall
    /\ called.fn = "analyze_existing_content"
    /\ called.competitor_urls # <<>>
    /\ Flag(called.settings, "include_competitors")
    /\ outcome.ret = None

\* the provider name generate_content reads from the settings of the call
NamedProvider ==
    IF "ai_provider" \in DOMAIN called.settings THEN called.settings["ai_provider"] ELSE "gemini"

\* C28: generate_content calls exactly one backend, the one named by
\* settings['ai_provider'] (gemini when the entry is missing); it calls no
\* backend and returns None when the name is not gemini, openai or anthropic.
C28_OneBackendByName ==
    (called.fn = "generate_content" /\ outcome.returned) =>
        IF NamedProvider \in {"gemini", "openai", "anthropic"}
        THEN /\ outcome.backends = <<NamedProvider>>
             /\ \A i \in 1..Len(outcome.calls) : outcome.calls[i].provider = NamedProvider
        ELSE /\ outcome.backends = <<>>
             /\ outcome.calls = <<>>
             /\ outcome.ret = None

\* C28 witness: a call with settings that name no provider, served by Gemini
C28_Witness ==
    /\ called.fn = "generate_content"
    /\ outcome.returned
    /\ "ai_provider" \notin DOMAIN called.settings
    /\ outcome.backends = <<"gemini">>
    /\ outcome.calls # <<>>

(***************************************************************************)
(* Claims about the runs.                                                  *)
(***************************************************************************)
\* the provider call of the last run failed
ProviderCallFailed == run.mode # "none" /\ run.answer.kind = "error" /\ run.calls # <<>>

\* C8: a planning run whose settings select no variant types is rejected with
\* an error shown to the user, before any prompt is built and before any
\* generation call is made.
C8_NoVariantTypesRejected ==
    (run.mode = "new_content" /\ run.settings["variant_types"] = <<>>) =>
        /\ run.prompt = <<>>
        /\ run.calls = <<>>
        /\ run.ui # <<>>

\* C9 as claimed: when the provider call fails, the caller of the analysis
\* receives the provider's error itself.
C9_ProviderErrorPropagated ==
    ProviderCallFailed => run.analysis = Raised(run.answer.text)

\* C9 as amended: when the provider call fails, the backend catches the
\* exception, shows its message with st.error and returns None; the caller of
\* the analysis receives None, reports "Analysis failed" and exports nothing.
C9_ProviderErrorBecomesNone ==
    ProviderCallFailed =>
        /\ run.analysis = None
        /\ \E i \in 1..Len(run.ui) : run.ui[i].v = <<run.answer.text>>
        /\ \E i \in 1..Len(run.ui) :
               run.ui[i].t = "Analysis failed. Please check your API key and try again."
        /\ ~run.exported

\* C9 witness: a run whose provider call raised
C9_Witness == ProviderCallFailed /\ run.analysis = None

\* C10: in every analysis run the provider is call at most once; a failed
\* generation call is not followed by another one.
C10_AtMostOneProviderCall == run.mode # "none" => Len(run.calls) <= 1

\* C10 witness: a run whose only provider call failed
C10_Witness == ProviderCallFailed /\ Len(run.calls) = 1 /\ run.mode = "optimize_existing"

\* the URLs of the content models in a list
UrlsOf(docs) == [i \in 1..Len(docs) |-> docs[i].url]

\* the optimize run reached analyze_existing_content with an API key
AnalysisEntered == run.mode = "optimize_existing" /\ run.settings # NoSettings /\ run.api_key # ""

C22_SettingsReadOnly ==
    (run.mode # "none" /\ run.settings # NoSettings) =>
        /\ run.settings_after = run.settings
        /\ Truthy(run.analysis) => (last_analysis.set /\ last_analysis.settings = run.settings)
        /\ run.exports.shown => run.exports.json.settings = run.settings

\* C22 witness: a planning run that built its prompt, got an analysis from
\* the provider and offered the exports
C22_Witness ==
    /\ run.mode = "new_content"
    /\ run.prompt # <<>>
    /\ Len(run.calls) = 1
    /\ run.exports.shown
    /\ run.settings_after = run.settings

\* a run-button handler is executed in this step
HandlerRuns == run'.n # run.n

\* C29: after any sequence of key edits, provider selections and button
\* presses, a generation call is made only with a non-empty API key that is
\* the key stored for the selected provider, and the selected provider of a
\* run is never one whose stored key is empty.
C29_CallsUseStoredKey ==
    [][HandlerRuns =>
          /\ api_keys[run'.ai_provider] # ""
          /\ run'.api_key = api_keys[run'.ai_provider]
          /\ \A i \in 1..Len(run'.calls) :
                 /\ run'.calls[i].provider = run'.ai_provider
                 /\ run'.calls[i].api_key = api_keys[run'.ai_provider]]_vars

\* C29 witness: a second run that called OpenAI with its stored key while the
\* Gemini key is empty
C29_Witness ==
    /\ run.n = 2
    /\ run.ai_provider = "openai"
    /\ run.calls # <<>>
    /\ run.calls[1].api_key = KeyOf("openai")
    /\ api_keys["openai"] = KeyOf("openai")
    /\ api_keys["gemini"] = ""

\* C30: last_analysis is written only by a run whose analysis returned
\* non-empty text; when the fetch fails, the generation returns nothing or
\* an exception is raised, last_analysis keeps its value and no export
\* options are shown.
C30_LastAnalysisOnlyOnSuccess ==
    [][IF HandlerRuns /\ Truthy(run'.analysis)
       THEN /\ last_analysis'.set
            /\ last_analysis'.analysis = run'.analysis.text
       ELSE /\ last_analysis' = last_analysis
            /\ HandlerRuns => run'.exports = NoExports]_vars

\* C30 witness: the target page could not be fetched in a run that followed
\* a successful new-content run, whose result last_analysis still holds
C30_Witness ==
    /\ run.n = 2
    /\ run.mode = "optimize_existing"
    /\ run.down = {TargetUrl}
    /\ run.analysis = None
    /\ run.exports = NoExports
    /\ last_analysis.set
    /\ last_analysis.subject = << <<"seo">> >>

=============================================================================
